---- MODULE Spec2Model ----
(***************************************************************************)
(* Game Dev Simulator: the weekly simulation engine (core/simulation.py,   *)
(* core/models.py, core/balance.py), the persistence bridge                *)
(* (to_dict / from_dict) and the command handlers of the user interfaces   *)
(* that mutate the studio between ticks (ui/cli.py, ui/pygame_ui.py).      *)
(*                                                                         *)
(* Representation.                                                         *)
(*  - Python objects have identity.  Employees and projects live in two    *)
(*    heaps, employee_objs and project_objs (sequences of records); an     *)
(*    object's identity is its index in its heap, and every list of the    *)
(*    program (studio.employees, studio.projects, finished_projects,       *)
(*    project.assigned_employees) is a sequence of such indices.           *)
(*  - Employee and GameProject are dataclasses, hence compare by VALUE:    *)
(*    `x in list` and `list.remove(x)` use identity-or-field-equality.     *)
(*    EmployeeEq / ProjectEq model that comparison.                        *)
(*  - Floats are fixed point: progress, the quality scalars and the score  *)
(*    are in thousandths (Milli); the float knobs of BalanceConfig and the *)
(*    random draws of [0,1) are in thousandths as well.  Products are      *)
(*    rounded down to a thousandth where the float has more digits.        *)
(***************************************************************************)
EXTENDS Integers, Sequences, FiniteSets, TLC

\* ------------------------------------------------------------------ bounds
\* employee objects ever created in one run (hires)
MaxEmployees == 2
\* project objects ever created in one run
MaxProjects == 2
\* run_step calls in one run of Spec
MaxTicks == 2
\* length of studio.finished_projects (repeated release_game calls grow it)
MaxFinished == 3
\* commands other than run_step (hire, fire, assign, create, release, finish,
\* load) in one run of Spec
MaxCommands == 2
\* run_step calls in one run of SpecCalendar (a full year and one week)
MaxCalendarTicks == 53
\* run_step calls in one run of SpecWeeks
MaxWeeks == 2

\* ------------------------------------------------------- program constants
Milli == 1000
WeeksPerYear == 52
base_price == 30
market_size == 50000
SicknessFatigue == 20
SicknessDefaultCost == 10
ContractPayment == 200
CrisisPenalty == 150
SicknessThreshold == 400
ContractThreshold == 700
FullProgress == 100 * Milli
MaxScore == 100 * Milli
MinDemand == 50
ReputationStep == 20 * Milli

Min(a, b) == IF a <= b THEN a ELSE b
Max(a, b) == IF a >= b THEN a ELSE b

\* list.pop(i) / del list[i], i counted from 1
RemoveAt(xs, i) == SubSeq(xs, 1, i - 1) \o SubSeq(xs, i + 1, Len(xs))

\* x in list, for a list of strings
InList(x, xs) == \E k \in 1..Len(xs) : xs[k] = x

\* ------------------------------------------------------------ BalanceConfig
\* balance.py BalanceConfig(): the defaults.  Float knobs in thousandths.
get_default_balance_config ==
  [ base_salary_programmer |-> 25,
    base_salary_designer |-> 22,
    base_salary_artist |-> 20,
    base_salary_sound |-> 20,
    base_salary_producer |-> 30,
    base_project_income_multiplier |-> 1000,
    trend_genre_bonus |-> 200,
    trend_platform_bonus |-> 100,
    random_score_deviation |-> 5000,
    fatigue_per_week |-> 10,
    rest_recovery_per_week |-> 5,
    event_chance_per_week |-> 250 ]

\* The configuration of tests/test_simulation.py: no events, no income, no jitter.
QuietConfig ==
  [ base_salary_programmer |-> 50,
    base_salary_designer |-> 0,
    base_salary_artist |-> 0,
    base_salary_sound |-> 0,
    base_salary_producer |-> 0,
    base_project_income_multiplier |-> 0,
    trend_genre_bonus |-> 0,
    trend_platform_bonus |-> 0,
    random_score_deviation |-> 0,
    fatigue_per_week |-> 10,
    rest_recovery_per_week |-> 5,
    event_chance_per_week |-> 0 ]

\* ------------------------------------------------- dataclass value equality
\* Employee.__eq__ (dataclass): all fields equal; list operations test identity first.
EmployeeEq(s, a, b) == a = b \/ s.employee_objs[a] = s.employee_objs[b]

\* list == list on two lists of employees
AssignedEq(s, xs, ys) ==
  /\ Len(xs) = Len(ys)
  /\ \A k \in 1..Len(xs) : EmployeeEq(s, xs[k], ys[k])

\* GameProject.__eq__ (dataclass): all fields equal, assigned_employees as lists.
ProjectEq(s, p, q) ==
  \/ p = q
  \/ LET P == s.project_objs[p]
         Q == s.project_objs[q]
     IN /\ [P EXCEPT !.assigned_employees = <<>>] = [Q EXCEPT !.assigned_employees = <<>>]
        /\ AssignedEq(s, P.assigned_employees, Q.assigned_employees)

\* employee in xs
EmployeeIn(s, e, xs) == \E k \in 1..Len(xs) : EmployeeEq(s, xs[k], e)

\* project in xs
ProjectIn(s, p, xs) == \E k \in 1..Len(xs) : ProjectEq(s, xs[k], p)

\* xs.remove(e): drops the first entry equal to e (e is known to be in xs)
RemoveEmployee(s, xs, e) ==
  LET k == CHOOSE i \in 1..Len(xs) :
             /\ EmployeeEq(s, xs[i], e)
             /\ \A j \in 1..(i - 1) : ~EmployeeEq(s, xs[j], e)
  IN RemoveAt(xs, k)

\* xs.remove(p): drops the first entry equal to p (p is known to be in xs)
RemoveProject(s, xs, p) ==
  LET k == CHOOSE i \in 1..Len(xs) :
             /\ ProjectEq(s, xs[i], p)
             /\ \A j \in 1..(i - 1) : ~ProjectEq(s, xs[j], p)
  IN RemoveAt(xs, k)

\* ----------------------------------------------------------------- Employee
\* the factor without the floor of one half
FatigueFactorNoFloor(fatigue) == Max(0, 100 - fatigue)

\* max(0.5, 1.0 - fatigue / 100), in percent
FatigueFactor(fatigue) == Max(50, 100 - fatigue)

\* the contributions computed at the fatigue the call leaves (default increase)
ContributionsAfterFatigue(e) ==
  LET f == FatigueFactor(Min(100, e.fatigue + 10))
  IN [ code |-> e.skill_code * f * 10,
       design |-> e.skill_design * f * 10,
       art |-> e.skill_art * f * 10,
       sound |-> e.skill_sound * f * 10 ]

\* Employee.work_on_task: the four contributions (thousandths), computed at the
\* fatigue the employee has before the call
Contributions(e) ==
  LET f == FatigueFactor(e.fatigue)
  IN [ code |-> e.skill_code * f * 10,
       design |-> e.skill_design * f * 10,
       art |-> e.skill_art * f * 10,
       sound |-> e.skill_sound * f * 10 ]

\* work_on_task without the cap of 100
work_on_task_uncapped(e, fatigue_increase) ==
  [e EXCEPT !.fatigue = e.fatigue + fatigue_increase]

\* Employee.work_on_task: the employee afterwards
work_on_task(e, fatigue_increase) ==
  [e EXCEPT !.fatigue = Min(100, e.fatigue + fatigue_increase)]

\* Employee.rest
rest(e, hours) == [e EXCEPT !.fatigue = Max(0, e.fatigue - hours)]

\* --------------------------------------------------------------- MarketTrend
\* MarketTrend.get_genre_multiplier, in tenths
get_genre_multiplier(trend, genre) ==
  IF InList(genre, trend.trending_genres) THEN 12 ELSE 10

\* --------------------------------------------------------------- GameProject
SumContributions(c) == c.code + c.design + c.art + c.sound

\* productivity.get(role, sum * 0.25)
Primary(role, c) ==
  CASE role = "programmer" -> c.code
    [] role = "designer" -> c.design
    [] role = "artist" -> c.art
    [] role = "sound" -> c.sound
    [] role = "producer" -> SumContributions(c) \div 2
    [] OTHER -> SumContributions(c) \div 4

\* the progress gain dividing by the absolute value of the complexity
ProgressGainAbs(primary, trend_multiplier, complexity) ==
  (primary * trend_multiplier) \div Max(1, IF complexity < 0 THEN -complexity ELSE complexity)

\* progress_gain of apply_employee_work: (primary / max(1, complexity)) * 10 *
\* trend_multiplier, thousandths (primary in thousandths, the multiplier in tenths)
ProgressGain(primary, trend_multiplier, complexity) ==
  (primary * trend_multiplier) \div Max(1, complexity)

\* apply_employee_work raising the code skill of the employee who worked
apply_employee_work_level_up(s, p, e, fatigue_increase) ==
  LET E == s.employee_objs[e]
      P == s.project_objs[p]
      c == Contributions(E)
      primary == Primary(E.role, c)
      trend_multiplier == get_genre_multiplier(s.market_trend, P.genre)
      progress_gain == ProgressGain(primary, trend_multiplier, P.complexity)
  IN [s EXCEPT
        !.employee_objs[e] =
          [work_on_task(E, fatigue_increase) EXCEPT !.skill_code = @ + 1],
        !.project_objs[p] =
          [P EXCEPT !.progress = Min(FullProgress, P.progress + progress_gain),
                    !.quality_code = @ + c.code \div 10,
                    !.quality_design = @ + c.design \div 10,
                    !.quality_art = @ + c.art \div 10,
                    !.quality_sound = @ + c.sound \div 10]]

\* GameProject.apply_employee_work(employee, trend, fatigue_increase) on the
\* project p and the employee e of the simulation s
apply_employee_work(s, p, e, fatigue_increase) ==
  LET E == s.employee_objs[e]
      P == s.project_objs[p]
      c == Contributions(E)
      primary == Primary(E.role, c)
      trend_multiplier == get_genre_multiplier(s.market_trend, P.genre)
      progress_gain == ProgressGain(primary, trend_multiplier, P.complexity)
  IN [s EXCEPT
        !.employee_objs[e] = work_on_task(E, fatigue_increase),
        !.project_objs[p] =
          [P EXCEPT !.progress = Min(FullProgress, P.progress + progress_gain),
                    !.quality_code = @ + c.code \div 10,
                    !.quality_design = @ + c.design \div 10,
                    !.quality_art = @ + c.art \div 10,
                    !.quality_sound = @ + c.sound \div 10]]

RECURSIVE AdvanceWeekFrom(_, _, _, _)
\* the loop of advance_week from the k-th assigned employee on
AdvanceWeekFrom(s, p, k, fatigue_increase) ==
  LET assigned == s.project_objs[p].assigned_employees
  IN IF k > Len(assigned) THEN s
     ELSE AdvanceWeekFrom(apply_employee_work(s, p, assigned[k], fatigue_increase),
                          p, k + 1, fatigue_increase)

\* advance_week without the test of the status
advance_week_any_status(s, p, fatigue_increase) ==
  AdvanceWeekFrom(s, p, 1, fatigue_increase)

\* GameProject.advance_week
advance_week(s, p, fatigue_increase) ==
  IF s.project_objs[p].status # "in_dev" THEN s
  ELSE AdvanceWeekFrom(s, p, 1, fatigue_increase)

\* ------------------------------------------------------------------ balance
\* (score / 50) ** 1.4 in thousandths at the scores 0, 10, .., 100
PowTable == <<0, 105, 277, 489, 732, 1000, 1291, 1602, 1931, 2277, 2639>>

\* normalized_score ** 1.4 in thousandths for a score >= 0 in thousandths:
\* linear interpolation of PowTable (the last segment is continued above 100)
Pow14(score) ==
  LET i == Min(9, score \div (10 * Milli))
      frac == score - i * 10 * Milli
  IN PowTable[i + 1] + ((PowTable[i + 2] - PowTable[i + 1]) * frac) \div (10 * Milli)

\* calculate_game_score without the final clamp to [0, 100]
calculate_game_score_unclamped(s, p, jitter) ==
  LET P == s.project_objs[p]
      config == s.balance_config
      avg_quality == (P.quality_code + P.quality_design + P.quality_art + P.quality_sound) \div 4
      genre_multiplier ==
        IF InList(P.genre, s.market_trend.trending_genres)
        THEN Milli + config.trend_genre_bonus ELSE Milli
      platform_multiplier ==
        IF InList(P.platform, s.market_trend.popular_platforms)
        THEN Milli + config.trend_platform_bonus ELSE Milli
      withGenre == (avg_quality * genre_multiplier) \div Milli
      withPlatform == (withGenre * platform_multiplier) \div Milli
  IN (withPlatform * (50 + s.studio.reputation)) \div 50 + jitter

\* calculate_game_score(project, market_trend, studio, config) with the draw
\* random.uniform(-deviation, deviation) = jitter
calculate_game_score(s, p, jitter) ==
  LET P == s.project_objs[p]
      config == s.balance_config
      avg_quality == (P.quality_code + P.quality_design + P.quality_art + P.quality_sound) \div 4
      genre_multiplier ==
        IF InList(P.genre, s.market_trend.trending_genres)
        THEN Milli + config.trend_genre_bonus ELSE Milli
      platform_multiplier ==
        IF InList(P.platform, s.market_trend.popular_platforms)
        THEN Milli + config.trend_platform_bonus ELSE Milli
      withGenre == (avg_quality * genre_multiplier) \div Milli
      withPlatform == (withGenre * platform_multiplier) \div Milli
      score == (withPlatform * (50 + s.studio.reputation)) \div 50
  IN Max(0, Min(MaxScore, score + jitter))

\* calculate_sales normalising abs(score) instead of max(0.0, score)
calculate_sales_abs(score, config, variance) ==
  LET demand_multiplier == Max(MinDemand, Pow14(IF score < 0 THEN -score ELSE score))
      potential_sales ==
        ((market_size \div Milli) * demand_multiplier * config.base_project_income_multiplier)
          \div Milli
      units_sold == (potential_sales * variance) \div Milli
  IN units_sold * base_price

\* calculate_sales(score, base_price, market_size, config) with the draw
\* random.uniform(0.9, 1.1) = variance (thousandths)
calculate_sales(score, config, variance) ==
  LET demand_multiplier == Max(MinDemand, Pow14(Max(0, score)))
      potential_sales ==
        ((market_size \div Milli) * demand_multiplier * config.base_project_income_multiplier)
          \div Milli
      units_sold == (potential_sales * variance) \div Milli
  IN units_sold * base_price

\* generate_reviews: the three pools (the lines stand for the four review texts
\* of each pool)
negative_pool == <<"negative 1", "negative 2", "negative 3", "negative 4">>
neutral_pool == <<"neutral 1", "neutral 2", "neutral 3", "neutral 4">>
positive_pool == <<"positive 1", "positive 2", "positive 3", "positive 4">>

\* the pool choice with the bucket limits included in the lower bucket
ReviewPoolInclusive(score) ==
  IF score <= 40 * Milli THEN negative_pool
  ELSE IF score <= 70 * Milli THEN neutral_pool
  ELSE positive_pool

\* generate_reviews: the pool of the score's bucket
ReviewPool(score) ==
  IF score < 40 * Milli THEN negative_pool
  ELSE IF score < 70 * Milli THEN neutral_pool
  ELSE positive_pool

\* generate_reviews(score) with the draws review_count = random.randint(3, 7) and
\* perm, the permutation random.shuffle applies to the doubled pool
generate_reviews(score, review_count, perm) ==
  LET pool_to_draw == ReviewPool(score) \o ReviewPool(score)
      shuffled == [ i \in 1..Len(pool_to_draw) |-> pool_to_draw[perm[i]] ]
  IN SubSeq(shuffled, 1, review_count)

\* reputation_gain without the floor of 1
ReputationGainFloor(score) == score \div ReputationStep

\* reputation_gain = max(1, int(score // 20))
ReputationGain(score) == Max(1, score \div ReputationStep)

\* ------------------------------------------------------------ GameSimulation
\* release_game removing the project from studio.projects without archiving it
release_game_no_archive(s, p, jitter, variance) ==
  LET score == calculate_game_score(s, p, jitter)
      revenue == calculate_sales(score, s.balance_config, variance)
      s1 == [s EXCEPT !.studio.cash = @ + revenue,
                      !.studio.reputation = @ + ReputationGain(score),
                      !.project_objs[p].status = "released"]
  IN IF ProjectIn(s1, p, s1.studio.projects)
     THEN [s1 EXCEPT !.studio.projects = RemoveProject(s1, @, p)]
     ELSE s1

\* GameSimulation.release_game(project): the simulation afterwards
release_game(s, p, jitter, variance) ==
  LET score == calculate_game_score(s, p, jitter)
      revenue == calculate_sales(score, s.balance_config, variance)
      s1 == [s EXCEPT !.studio.cash = @ + revenue,
                      !.studio.reputation = @ + ReputationGain(score),
                      !.project_objs[p].status = "released"]
      s2 == IF ProjectIn(s1, p, s1.studio.projects)
            THEN [s1 EXCEPT !.studio.projects = RemoveProject(s1, @, p)]
            ELSE s1
  IN [s2 EXCEPT !.studio.finished_projects = Append(@, p)]

\* GameSimulation.release_game(project): the dictionary it returns (without reviews)
ReleaseResult(s, p, jitter, variance) ==
  LET score == calculate_game_score(s, p, jitter)
  IN [ score |-> score, income |-> calculate_sales(score, s.balance_config, variance) ]

\* get_state_summary listing the finished projects as active and the active ones
\* as finished
get_state_summary_swapped(s) ==
  [ week |-> s.current_week,
    year |-> s.current_year,
    cash |-> s.studio.cash,
    reputation |-> s.studio.reputation,
    active_projects |->
      [ k \in 1..Len(s.studio.finished_projects) |->
          s.project_objs[s.studio.finished_projects[k]].title ],
    finished_projects |->
      [ k \in 1..Len(s.studio.projects) |-> s.project_objs[s.studio.projects[k]].title ],
    employees |->
      [ k \in 1..Len(s.studio.employees) |-> s.employee_objs[s.studio.employees[k]].name ] ]

\* GameSimulation.get_state_summary: the dictionary it returns
get_state_summary(s) ==
  [ week |-> s.current_week,
    year |-> s.current_year,
    cash |-> s.studio.cash,
    reputation |-> s.studio.reputation,
    active_projects |->
      [ k \in 1..Len(s.studio.projects) |-> s.project_objs[s.studio.projects[k]].title ],
    finished_projects |->
      [ k \in 1..Len(s.studio.finished_projects) |->
          s.project_objs[s.studio.finished_projects[k]].title ],
    employees |->
      [ k \in 1..Len(s.studio.employees) |-> s.employee_objs[s.studio.employees[k]].name ] ]

\* the base salary of a role, none for a role that is not one of the five
RoleBaseSalaryKnownOnly(config, role) ==
  CASE role = "programmer" -> config.base_salary_programmer
    [] role = "designer" -> config.base_salary_designer
    [] role = "artist" -> config.base_salary_artist
    [] role = "sound" -> config.base_salary_sound
    [] role = "producer" -> config.base_salary_producer
    [] OTHER -> 0

\* role_base_salary.get(employee.role, base_salary_programmer)
RoleBaseSalary(config, role) ==
  CASE role = "programmer" -> config.base_salary_programmer
    [] role = "designer" -> config.base_salary_designer
    [] role = "artist" -> config.base_salary_artist
    [] role = "sound" -> config.base_salary_sound
    [] role = "producer" -> config.base_salary_producer
    [] OTHER -> config.base_salary_programmer

RECURSIVE TotalSalaryFrom(_, _)
\* the loop of _pay_salaries from the k-th employee of the roster on
TotalSalaryFrom(s, k) ==
  IF k > Len(s.studio.employees) THEN 0
  ELSE LET E == s.employee_objs[s.studio.employees[k]]
           fallback == RoleBaseSalary(s.balance_config, E.role)
       IN (IF E.salary # 0 THEN E.salary ELSE fallback) + TotalSalaryFrom(s, k + 1)

\* _pay_salaries paying only what the cash allows
_pay_salaries_solvent(s) ==
  [s EXCEPT !.studio.cash = Max(0, @ - TotalSalaryFrom(s, 1))]

\* GameSimulation._pay_salaries
_pay_salaries(s) == [s EXCEPT !.studio.cash = @ - TotalSalaryFrom(s, 1)]

RECURSIVE AllAssignedFrom(_, _)
\* [employee for project in studio.projects for employee in project.assigned_employees]
AllAssignedFrom(s, k) ==
  IF k > Len(s.studio.projects) THEN <<>>
  ELSE s.project_objs[s.studio.projects[k]].assigned_employees \o AllAssignedFrom(s, k + 1)

RECURSIVE RecoverFrom(_, _, _)
\* the loop of _recover_idle_employees from the k-th employee of the roster on
RecoverFrom(s, assigned, k) ==
  IF k > Len(s.studio.employees) THEN s
  ELSE LET e == s.studio.employees[k]
           s1 == IF ~EmployeeIn(s, e, assigned)
                 THEN [s EXCEPT !.employee_objs[e] =
                                  rest(@, s.balance_config.rest_recovery_per_week)]
                 ELSE s
       IN RecoverFrom(s1, assigned, k + 1)

\* _recover_idle_employees resting every employee of the roster
_recover_idle_employees_all(s) ==
  [s EXCEPT !.employee_objs =
     [ e \in DOMAIN @ |->
         IF \E k \in 1..Len(s.studio.employees) : s.studio.employees[k] = e
         THEN rest(@[e], s.balance_config.rest_recovery_per_week)
         ELSE @[e] ]]

\* GameSimulation._recover_idle_employees
_recover_idle_employees(s) == RecoverFrom(s, AllAssignedFrom(s, 1), 1)

RECURSIVE AdvanceProjectsFrom(_, _, _)
\* the loop of _advance_projects over the copy of studio.projects
AdvanceProjectsFrom(s, copy, k) ==
  IF k > Len(copy) THEN s
  ELSE AdvanceProjectsFrom(advance_week(s, copy[k], s.balance_config.fatigue_per_week),
                           copy, k + 1)

\* GameSimulation._advance_projects
_advance_projects(s) ==
  _recover_idle_employees(AdvanceProjectsFrom(s, s.studio.projects, 1))

RECURSIVE MarketTrendsUncappedFrom(_, _)
\* the loop of _apply_market_trends adding the bonus without the clamp to 100
MarketTrendsUncappedFrom(s, k) ==
  IF k > Len(s.studio.projects) THEN s
  ELSE LET p == s.studio.projects[k]
           P == s.project_objs[p]
           bonus == IF InList(P.genre, s.market_trend.trending_genres)
                    THEN s.balance_config.trend_genre_bonus ELSE 0
           s1 == IF P.status # "in_dev" THEN s
                 ELSE [s EXCEPT !.project_objs[p].progress = @ + bonus * 2]
       IN MarketTrendsUncappedFrom(s1, k + 1)

RECURSIVE MarketTrendsFrom(_, _)
\* the loop of _apply_market_trends from the k-th active project on
MarketTrendsFrom(s, k) ==
  IF k > Len(s.studio.projects) THEN s
  ELSE LET p == s.studio.projects[k]
           P == s.project_objs[p]
           bonus == IF InList(P.genre, s.market_trend.trending_genres)
                    THEN s.balance_config.trend_genre_bonus ELSE 0
           s1 == IF P.status # "in_dev" THEN s
                 ELSE [s EXCEPT !.project_objs[p].progress =
                                  Min(FullProgress, @ + bonus * 2)]
       IN MarketTrendsFrom(s1, k + 1)

\* _apply_market_trends adding the bonus once instead of twice
_apply_market_trends_once(s) ==
  [s EXCEPT !.project_objs =
     [ p \in DOMAIN @ |->
         IF /\ p \in { s.studio.projects[k] : k \in 1..Len(s.studio.projects) }
            /\ @[p].status = "in_dev"
            /\ InList(@[p].genre, s.market_trend.trending_genres)
         THEN [@[p] EXCEPT !.progress =
                 Min(FullProgress, @ + s.balance_config.trend_genre_bonus)]
         ELSE @[p] ]]

\* GameSimulation._apply_market_trends
_apply_market_trends(s) == MarketTrendsFrom(s, 1)

\* The event _process_random_events applies for the draws roll and event_roll
\* (random.random(), thousandths): "none", "sickness", "contract" or "crisis"
EventKind(s, roll, event_roll) ==
  IF roll > s.balance_config.event_chance_per_week THEN "none"
  ELSE IF event_roll < SicknessThreshold /\ Len(s.studio.employees) > 0 THEN "sickness"
  ELSE IF event_roll < ContractThreshold THEN "contract"
  ELSE "crisis"

\* GameEvent.effect of the event; choice is the roster position random.choice draws
EventEffect(s, roll, event_roll, choice) ==
  LET kind == EventKind(s, roll, event_roll)
  IN CASE kind = "none" -> 0
       [] kind = "sickness" ->
            LET salary == s.employee_objs[s.studio.employees[choice]].salary
            IN -(IF salary # 0 THEN salary ELSE SicknessDefaultCost)
       [] kind = "contract" -> ContractPayment
       [] kind = "crisis" -> -CrisisPenalty

\* _apply_event_effect charging the effect to the reputation
_apply_event_effect_reputation(s, effect) == [s EXCEPT !.studio.reputation = @ + effect]

\* GameSimulation._apply_event_effect
_apply_event_effect(s, effect) == [s EXCEPT !.studio.cash = @ + effect]

\* _process_random_events with `if` for `elif`: a sickness falls through to the
\* contract branch
_process_random_events_fallthrough(s, roll, event_roll, choice) ==
  LET kind == EventKind(s, roll, event_roll)
      effect == EventEffect(s, roll, event_roll, choice)
  IN IF kind = "none" THEN s
     ELSE IF kind = "sickness"
     THEN _apply_event_effect(
            _apply_event_effect(
              [s EXCEPT !.employee_objs[s.studio.employees[choice]].fatigue =
                          Min(100, @ + SicknessFatigue)], effect),
            ContractPayment)
     ELSE _apply_event_effect(s, effect)

\* GameSimulation._process_random_events
_process_random_events(s, roll, event_roll, choice) ==
  LET kind == EventKind(s, roll, event_roll)
      effect == EventEffect(s, roll, event_roll, choice)
  IN IF kind = "none" THEN s
     ELSE IF kind = "sickness"
     THEN _apply_event_effect(
            [s EXCEPT !.employee_objs[s.studio.employees[choice]].fatigue =
                        Min(100, @ + SicknessFatigue)], effect)
     ELSE _apply_event_effect(s, effect)

\* _check_releases testing progress > 100 instead of >= 100
ReadyForReleaseStrict(P) == P.status = "in_dev" /\ P.progress > FullProgress

\* the test of _check_releases
ReadyForRelease(P) == P.status = "in_dev" /\ P.progress >= FullProgress

RECURSIVE CheckReleasesLiveFrom(_, _, _, _, _)
\* the loop of _check_releases over studio.projects itself instead of a copy: a
\* release shortens the list under the loop, which then skips the next entry
CheckReleasesLiveFrom(s, copy, k, jitter, variance) ==
  IF k > Len(s.studio.projects) THEN s
  ELSE LET p == s.studio.projects[k]
           s1 == IF ReadyForRelease(s.project_objs[p])
                 THEN release_game(s, p, jitter[k], variance[k])
                 ELSE s
       IN CheckReleasesLiveFrom(s1, copy, k + 1, jitter, variance)

RECURSIVE CheckReleasesFrom(_, _, _, _, _)
\* the loop of _check_releases over the copy of studio.projects; the k-th entry
\* of the copy, when released, uses the draws jitter[k] and variance[k]
CheckReleasesFrom(s, copy, k, jitter, variance) ==
  IF k > Len(copy) THEN s
  ELSE LET s1 == IF ReadyForRelease(s.project_objs[copy[k]])
                 THEN release_game(s, copy[k], jitter[k], variance[k])
                 ELSE s
       IN CheckReleasesFrom(s1, copy, k + 1, jitter, variance)

\* GameSimulation._check_releases
_check_releases(s, jitter, variance) ==
  CheckReleasesFrom(s, s.studio.projects, 1, jitter, variance)

\* _advance_calendar resetting the week one week early (>= instead of >)
_advance_calendar_early(s) ==
  LET week == s.current_week + 1
  IN IF week >= WeeksPerYear
     THEN [s EXCEPT !.current_week = 1, !.current_year = @ + 1]
     ELSE [s EXCEPT !.current_week = week]

\* GameSimulation._advance_calendar
_advance_calendar(s) ==
  LET week == s.current_week + 1
  IN IF week > WeeksPerYear
     THEN [s EXCEPT !.current_week = 1, !.current_year = @ + 1]
     ELSE [s EXCEPT !.current_week = week]

\* run_step processing the random event before the projects advance
run_step_events_first(s, d) ==
  LET s1 == _pay_salaries(s)
      s2 == _process_random_events(s1, d.roll, d.event_roll, d.choice)
      s3 == _advance_projects(s2)
      s4 == _apply_market_trends(s3)
      s5 == _check_releases(s4, d.jitter, d.variance)
  IN _advance_calendar(s5)

\* GameSimulation.run_step with the random draws d of the tick
run_step(s, d) ==
  LET s1 == _pay_salaries(s)
      s2 == _advance_projects(s1)
      s3 == _apply_market_trends(s2)
      s4 == _process_random_events(s3, d.roll, d.event_roll, d.choice)
      s5 == _check_releases(s4, d.jitter, d.variance)
  IN _advance_calendar(s5)

\* GameStudio.finish_project
finish_project(s, p) ==
  IF ProjectIn(s, p, s.studio.projects)
  THEN [s EXCEPT !.studio.projects = RemoveProject(s, @, p),
                 !.studio.finished_projects = Append(@, p),
                 !.studio.reputation = @ + 1]
  ELSE s

\* -------------------------------------------------------------- persistence
\* GameSimulation._employee_to_dict
_employee_to_dict(E) ==
  [ name |-> E.name, role |-> E.role, skill_code |-> E.skill_code,
    skill_design |-> E.skill_design, skill_art |-> E.skill_art,
    skill_sound |-> E.skill_sound, salary |-> E.salary, fatigue |-> E.fatigue ]

\* next(i for i, data in enumerate(employees_data) if name and role match), counted
\* from 0; -1 stands for StopIteration
FirstNameRoleMatch(employees_data, E) ==
  LET hits == { i \in 1..Len(employees_data) :
                  employees_data[i].name = E.name /\ employees_data[i].role = E.role }
  IN IF hits = {} THEN -1
     ELSE (CHOOSE i \in hits : \A j \in hits : i <= j) - 1

RECURSIVE AssignedIndicesFrom(_, _, _, _)
\* the loop of _project_to_dict from the k-th assigned employee on
AssignedIndicesFrom(s, assigned, employees_data, k) ==
  IF k > Len(assigned) THEN <<>>
  ELSE LET idx == FirstNameRoleMatch(employees_data, s.employee_objs[assigned[k]])
           tail == AssignedIndicesFrom(s, assigned, employees_data, k + 1)
       IN IF idx = -1 THEN tail ELSE <<idx>> \o tail

\* GameSimulation._project_to_dict
_project_to_dict(s, p, employees_data) ==
  LET P == s.project_objs[p]
  IN [ title |-> P.title, genre |-> P.genre, platform |-> P.platform,
       complexity |-> P.complexity, progress |-> P.progress,
       quality_code |-> P.quality_code, quality_design |-> P.quality_design,
       quality_art |-> P.quality_art, quality_sound |-> P.quality_sound,
       status |-> P.status,
       assigned_employees |-> AssignedIndicesFrom(s, P.assigned_employees, employees_data, 1) ]

\* GameSimulation.to_dict
to_dict(s) ==
  LET employees_data ==
        [ k \in 1..Len(s.studio.employees) |->
            _employee_to_dict(s.employee_objs[s.studio.employees[k]]) ]
  IN [ current_week |-> s.current_week,
       current_year |-> s.current_year,
       balance_config |-> s.balance_config,
       market_trend |-> s.market_trend,
       studio |->
         [ name |-> s.studio.name,
           cash |-> s.studio.cash,
           reputation |-> s.studio.reputation,
           employees |-> employees_data,
           projects |->
             [ k \in 1..Len(s.studio.projects) |->
                 _project_to_dict(s, s.studio.projects[k], employees_data) ],
           finished_projects |->
             [ k \in 1..Len(s.studio.finished_projects) |->
                 _project_to_dict(s, s.studio.finished_projects[k], employees_data) ] ] ]

\* GameSimulation._employee_from_dict
_employee_from_dict(data) ==
  [ name |-> data.name, role |-> data.role, skill_code |-> data.skill_code,
    skill_design |-> data.skill_design, skill_art |-> data.skill_art,
    skill_sound |-> data.skill_sound, salary |-> data.salary, fatigue |-> data.fatigue ]

RECURSIVE ResolveIndicesInclusiveFrom(_, _, _)
\* the loop of _project_from_dict accepting the index equal to the roster length
ResolveIndicesInclusiveFrom(indices, count, k) ==
  IF k > Len(indices) THEN <<>>
  ELSE LET tail == ResolveIndicesInclusiveFrom(indices, count, k + 1)
       IN IF 0 <= indices[k] /\ indices[k] <= count
          THEN <<indices[k] + 1>> \o tail ELSE tail

RECURSIVE ResolveIndicesFrom(_, _, _)
\* the loop of _project_from_dict: indices outside the roster are dropped; the
\* k-th restored employee is the object k
ResolveIndicesFrom(indices, count, k) ==
  IF k > Len(indices) THEN <<>>
  ELSE LET tail == ResolveIndicesFrom(indices, count, k + 1)
       IN IF 0 <= indices[k] /\ indices[k] < count
          THEN <<indices[k] + 1>> \o tail ELSE tail

\* GameSimulation._project_from_dict
_project_from_dict(data, count) ==
  [ title |-> data.title, genre |-> data.genre, platform |-> data.platform,
    complexity |-> data.complexity, progress |-> data.progress,
    quality_code |-> data.quality_code, quality_design |-> data.quality_design,
    quality_art |-> data.quality_art, quality_sound |-> data.quality_sound,
    status |-> data.status,
    assigned_employees |-> ResolveIndicesFrom(data.assigned_employees, count, 1) ]

\* GameSimulation.from_dict: a new simulation of new objects
from_dict(data) ==
  LET studio_data == data.studio
      n == Len(studio_data.employees)
      m == Len(studio_data.projects)
      f == Len(studio_data.finished_projects)
  IN [ current_week |-> data.current_week,
       current_year |-> data.current_year,
       balance_config |-> data.balance_config,
       market_trend |-> data.market_trend,
       studio |->
         [ name |-> studio_data.name,
           cash |-> studio_data.cash,
           reputation |-> studio_data.reputation,
           employees |-> [ k \in 1..n |-> k ],
           projects |-> [ k \in 1..m |-> k ],
           finished_projects |-> [ k \in 1..f |-> m + k ] ],
       employee_objs |-> [ k \in 1..n |-> _employee_from_dict(studio_data.employees[k]) ],
       project_objs |->
         [ k \in 1..(m + f) |->
             IF k <= m THEN _project_from_dict(studio_data.projects[k], n)
             ELSE _project_from_dict(studio_data.finished_projects[k - m], n) ] ]

\* ------------------------------------------------------------ command handlers
\* Employee(...) as the hire commands build it: fatigue 0
NewEmployee(h) ==
  [ name |-> h.name, role |-> h.role, skill_code |-> h.skill_code,
    skill_design |-> h.skill_design, skill_art |-> h.skill_art,
    skill_sound |-> h.skill_sound, salary |-> h.salary, fatigue |-> 0 ]

\* GameProject(title, genre, platform, complexity): the dataclass defaults
NewProject(c) ==
  [ title |-> c.title, genre |-> c.genre, platform |-> c.platform,
    complexity |-> c.complexity, progress |-> 0,
    quality_code |-> 0, quality_design |-> 0, quality_art |-> 0, quality_sound |-> 0,
    status |-> "in_dev", assigned_employees |-> <<>> ]

\* GameCLI._hire_employee / the submit of GamePygameUI._prompt_hire_employee
_hire_employee(s, h) ==
  LET e == Len(s.employee_objs) + 1
  IN [s EXCEPT !.employee_objs = Append(@, NewEmployee(h)),
               !.studio.employees = Append(@, e)]

\* GameCLI._create_project / the submit of GamePygameUI._prompt_new_project
_create_project(s, c) ==
  LET p == Len(s.project_objs) + 1
  IN [s EXCEPT !.project_objs = Append(@, NewProject(c)),
               !.studio.projects = Append(@, p)]

RECURSIVE FireFrom(_, _, _)
\* the loop of _fire_employee over studio.projects from the k-th project on
FireFrom(s, fired, k) ==
  IF k > Len(s.studio.projects) THEN s
  ELSE LET p == s.studio.projects[k]
           assigned == s.project_objs[p].assigned_employees
           s1 == IF EmployeeIn(s, fired, assigned)
                 THEN [s EXCEPT !.project_objs[p].assigned_employees =
                                  RemoveEmployee(s, assigned, fired)]
                 ELSE s
       IN FireFrom(s1, fired, k + 1)

\* GameCLI._fire_employee / GamePygameUI._fire_employee with a valid roster
\* position idx (counted from 1)
_fire_employee(s, idx) ==
  LET fired == s.studio.employees[idx]
  IN FireFrom([s EXCEPT !.studio.employees = RemoveAt(@, idx)], fired, 1)

RECURSIVE AssignAlwaysFrom(_, _, _, _)
\* the loop of _assign_employees_to_project appending without the membership test
AssignAlwaysFrom(s, p, indices, k) ==
  IF k > Len(indices) THEN s
  ELSE LET employee == s.studio.employees[indices[k]]
       IN AssignAlwaysFrom([s EXCEPT !.project_objs[p].assigned_employees =
                                       Append(@, employee)],
                           p, indices, k + 1)

RECURSIVE AssignFrom(_, _, _, _)
\* the loop of _assign_employees_to_project from the k-th entered index on
AssignFrom(s, p, indices, k) ==
  IF k > Len(indices) THEN s
  ELSE LET employee == s.studio.employees[indices[k]]
           s1 == IF ~EmployeeIn(s, employee, s.project_objs[p].assigned_employees)
                 THEN [s EXCEPT !.project_objs[p].assigned_employees = Append(@, employee)]
                 ELSE s
       IN AssignFrom(s1, p, indices, k + 1)

\* GameCLI._assign_employees_to_project (a list of roster positions) /
\* GamePygameUI._assign_employee_to_project (a single one); positions from 1
_assign_employees_to_project(s, proj_idx, indices) ==
  AssignFrom(s, s.studio.projects[proj_idx], indices, 1)

\* ------------------------------------------------------------ initial objects
\* GameSimulation.__init__(studio, market_trend, balance_config)
NewSimulation(studio, employee_objs, project_objs, market_trend, balance_config) ==
  [ current_week |-> 1,
    current_year |-> 1,
    balance_config |-> balance_config,
    market_trend |-> market_trend,
    studio |-> studio,
    employee_objs |-> employee_objs,
    project_objs |-> project_objs ]

\* Employees the hire commands are given: a namesake of the test studio's
\* programmer with the skills of the graphical hire dialog and no salary, and an
\* employee whose role is none of the five known ones
HireInputs ==
  { [ name |-> "Anna", role |-> "programmer", skill_code |-> 3, skill_design |-> 3,
      skill_art |-> 3, skill_sound |-> 3, salary |-> 0 ],
    [ name |-> "Boris", role |-> "tester", skill_code |-> 3, skill_design |-> 3,
      skill_art |-> 3, skill_sound |-> 3, salary |-> 20 ] }

\* Projects the create commands are given
CreateInputs ==
  { [ title |-> "Arcade", genre |-> "Arcade", platform |-> "PC", complexity |-> 1 ],
    [ title |-> "Quest", genre |-> "RPG", platform |-> "Console", complexity |-> 20 ] }

\* MarketTrend of tests/test_simulation.py
TestTrend == [ trending_genres |-> <<"Arcade">>, popular_platforms |-> <<"PC">> ]

\* The studio of tests/test_simulation.py: one employee on one project, which the
\* test builds at progress 100 (a GameProject starts at 0 by default)
TestSimulation(config, progress) ==
  NewSimulation(
    [ name |-> "Test Studio", cash |-> 200, reputation |-> 0,
      employees |-> <<1>>, projects |-> <<1>>, finished_projects |-> <<>> ],
    << [ name |-> "Anna", role |-> "programmer", skill_code |-> 8, skill_design |-> 2,
         skill_art |-> 1, skill_sound |-> 1, salary |-> 50, fatigue |-> 0 ] >>,
    << [ title |-> "Arcade", genre |-> "Arcade", platform |-> "PC", complexity |-> 1,
         progress |-> progress,
         quality_code |-> 0, quality_design |-> 0, quality_art |-> 0, quality_sound |-> 0,
         status |-> "in_dev", assigned_employees |-> <<1>> ] >>,
    TestTrend, config)

\* A studio without employees and projects (tests/test_models.py builds it empty)
EmptySimulation(config) ==
  NewSimulation(
    [ name |-> "Indie Stars", cash |-> 1000, reputation |-> 5,
      employees |-> <<>>, projects |-> <<>>, finished_projects |-> <<>> ],
    <<>>, <<>>, TestTrend, config)

\* ----------------------------------------------------------------- the draws
\* random.random() of the event roll, thousandths of [0, 1)
Rolls == {0, 250, 999}
\* random.random() of the event choice: below 0.4, below 0.7, the rest
EventRolls == {0, 400, 700}
\* random.uniform(0.9, 1.1), thousandths
VarianceDraws == {900, 1100}
\* random.uniform(-deviation, deviation): both ends and the middle
JitterDraws(config) == { -config.random_score_deviation, 0, config.random_score_deviation }
\* current_week values of a save file edited outside the program
ForeignWeeks == {0, 53}

\* -------------------------------------------------------------------- state
\* sim:  the GameSimulation the user interface holds (calendar, configuration,
\*       trend, studio and the two object heaps)
\* last: the operation that produced the state: its name, its argument (an object
\*       or a list position, 0 when it has none) and the projects of
\*       studio.projects that were in_dev with progress >= 100 when it was called
\* cal:  the calendar at the start of the run, the run_step calls made since, the
\*       number of them that changed the year, the weeks they left when they did,
\*       and the other commands made since
VARIABLES sim, last, cal

vars == <<sim, last, cal>>

\* the elements of a list
Range(xs) == { xs[k] : k \in 1..Len(xs) }

\* the project objects the studio holds in either list
StudioProjects(s) == Range(s.studio.projects) \cup Range(s.studio.finished_projects)

\* the projects of studio.projects that are in_dev with progress >= 100
ReadyProjects(s) ==
  { p \in Range(s.studio.projects) :
      s.project_objs[p].status = "in_dev" /\ s.project_objs[p].progress >= FullProgress }

Done(op, arg) == last' = [ op |-> op, arg |-> arg, ready |-> ReadyProjects(sim) ]

\* a command other than run_step: counted, the calendar record otherwise untouched
Command ==
  /\ cal.commands < MaxCommands
  /\ cal' = [cal EXCEPT !.commands = @ + 1]

StartCalendar(s) ==
  [ start_week |-> s.current_week, start_year |-> s.current_year,
    steps |-> 0, year_incs |-> 0, inc_weeks |-> {}, commands |-> 0 ]

Init ==
  /\ sim \in { TestSimulation(QuietConfig, FullProgress),
               TestSimulation(QuietConfig, 0),
               EmptySimulation(get_default_balance_config) }
  /\ last = [ op |-> "init", arg |-> 0, ready |-> {} ]
  /\ cal = StartCalendar(sim)

\* The draws of one tick: the two event rolls, the roster position random.choice
\* picks, and for each position of studio.projects the jitter and the variance its
\* release would draw
Draws(s) ==
  { [ roll |-> roll, event_roll |-> event_roll, choice |-> choice,
      jitter |-> jitter, variance |-> variance ] :
      roll \in Rolls, event_roll \in EventRolls,
      choice \in (IF Len(s.studio.employees) = 0 THEN {1} ELSE 1..Len(s.studio.employees)),
      jitter \in [ 1..Len(s.studio.projects) -> JitterDraws(s.balance_config) ],
      variance \in [ 1..Len(s.studio.projects) -> VarianceDraws ] }

\* menu choice 1 of GameCLI.run / GamePygameUI._do_next_week: one run_step
Tick(limit) ==
  /\ cal.steps < limit
  /\ \E d \in Draws(sim) :
       /\ sim' = run_step(sim, d)
       /\ Done("run_step", 0)
       /\ cal' = [cal EXCEPT
                    !.steps = @ + 1,
                    !.year_incs = IF sim'.current_year # sim.current_year THEN @ + 1 ELSE @,
                    !.inc_weeks = IF sim'.current_year # sim.current_year
                                  THEN @ \cup {sim.current_week} ELSE @]

RunStep == Tick(MaxTicks)

HireEmployee ==
  /\ Len(sim.employee_objs) < MaxEmployees
  /\ \E h \in HireInputs :
       /\ sim' = _hire_employee(sim, h)
       /\ Done("hire", Len(sim.employee_objs) + 1)
  /\ Command

FireEmployee ==
  /\ \E idx \in 1..Len(sim.studio.employees) :
       /\ sim' = _fire_employee(sim, idx)
       /\ Done("fire", sim.studio.employees[idx])
  /\ Command

AssignEmployees ==
  /\ \E proj_idx \in 1..Len(sim.studio.projects) :
       \E i \in 1..Len(sim.studio.employees) :
         \E indices \in { <<i>> } \cup { <<i, j>> : j \in 1..Len(sim.studio.employees) } :
           /\ sim' = _assign_employees_to_project(sim, proj_idx, indices)
           /\ Done("assign", sim.studio.projects[proj_idx])
  /\ Command

CreateProject ==
  /\ Len(sim.project_objs) < MaxProjects
  /\ \E c \in CreateInputs :
       /\ sim' = _create_project(sim, c)
       /\ Done("create_project", Len(sim.project_objs) + 1)
  /\ Command

\* a direct call of the public operation release_game on a project of the studio
ReleaseGame ==
  /\ Len(sim.studio.finished_projects) < MaxFinished
  /\ \E p \in StudioProjects(sim) :
       \E jitter \in JitterDraws(sim.balance_config), variance \in VarianceDraws :
         /\ sim' = release_game(sim, p, jitter, variance)
         /\ Done("release_game", p)
  /\ Command

\* a direct call of GameStudio.finish_project on a project of the studio
FinishProject ==
  /\ Len(sim.studio.finished_projects) < MaxFinished
  /\ \E p \in StudioProjects(sim) :
       /\ sim' = finish_project(sim, p)
       /\ Done("finish_project", p)
  /\ Command

\* The documents the load command can read: what save_game wrote for the current
\* simulation, as written or with current_week edited outside the program
SaveFiles(s) ==
  { to_dict(s) } \cup { [to_dict(s) EXCEPT !.current_week = w] : w \in ForeignWeeks }

\* GameCLI._load_from_file / GamePygameUI._load_game after a save: the interface
\* replaces its simulation by from_dict of the document
LoadGame ==
  /\ \E data \in SaveFiles(sim) :
       /\ sim' = from_dict(data)
       /\ Done("load_game", 0)
  /\ Command

Next ==
  \/ RunStep
  \/ HireEmployee
  \/ FireEmployee
  \/ AssignEmployees
  \/ CreateProject
  \/ ReleaseGame
  \/ FinishProject
  \/ LoadGame

Spec == Init /\ [][Next]_vars

\* The commands of the user interfaces and the tick, without direct calls of
\* release_game and finish_project and without loading
NextCore ==
  \/ RunStep
  \/ HireEmployee
  \/ FireEmployee
  \/ AssignEmployees
  \/ CreateProject

SpecCore == Init /\ [][NextCore]_vars

\* ---------------------------------------------------------------- a full year
\* first weeks and years of the year-long runs
StartWeeks == 1..WeeksPerYear
StartYears == {1, 2}

\* A year of run_step calls and nothing else, from a loaded simulation whose
\* calendar stands at any week of the year: an empty studio, default configuration
InitCalendar ==
  /\ \E w \in StartWeeks, y \in StartYears :
       sim = from_dict([to_dict(EmptySimulation(get_default_balance_config))
                          EXCEPT !.current_week = w, !.current_year = y])
  /\ last = [ op |-> "load_game", arg |-> 0, ready |-> {} ]
  /\ cal = StartCalendar(sim)

CalendarStep == Tick(MaxCalendarTicks)

SpecCalendar == InitCalendar /\ [][CalendarStep]_vars

\* ------------------------------------------------------ the balance functions
\* quality scalars (code, design, art, sound) of the project that is scored:
\* none, those of tests/test_balance.py, the top of the scale, above it, negative
QualityInputs ==
  { <<0, 0, 0, 0>>, <<60, 55, 50, 45>>, <<100, 100, 100, 100>>,
    <<200, 150, 90, 10>>, <<-20, 0, 5, 0>> }

\* studio.reputation of the studio whose project is scored
ReputationInputs == {-100, -50, -1, 0, 3, 100}

\* market trends: those of tests/test_balance.py and none
TrendInputs ==
  { [ trending_genres |-> <<"RPG">>, popular_platforms |-> <<"PC">> ],
    [ trending_genres |-> <<>>, popular_platforms |-> <<>> ] }

\* the configurations the balance functions are given
ConfigInputs == { get_default_balance_config, QuietConfig }

\* scores (thousandths) given to generate_reviews and calculate_sales: the bucket
\* limits and their neighbours, the ends of the scale, values outside it
ScoreInputs ==
  { -50 * Milli, -1 * Milli, 0, 1 * Milli, 20 * Milli, 40 * Milli - 1, 40 * Milli,
    50 * Milli, 70 * Milli - 1, 70 * Milli, 85 * Milli, 100 * Milli, 120 * Milli }

\* random.randint(3, 7)
ReviewCounts == 3..7

\* permutations random.shuffle may apply to the eight entries of the doubled pool
Shuffles ==
  { [ i \in 1..8 |-> ((a * (i - 1) + b) % 8) + 1 ] : a \in {1, 3, 5, 7}, b \in 0..7 }

\* The set-up of tests/test_balance.py: a project that is not in the studio's
\* lists, with the quality scalars q, in a studio of reputation r
BalanceSimulation(q, r, trend, config) ==
  NewSimulation(
    [ name |-> "Test", cash |-> 1000, reputation |-> r,
      employees |-> <<>>, projects |-> <<>>, finished_projects |-> <<>> ],
    <<>>,
    << [ title |-> "Test Game", genre |-> "RPG", platform |-> "PC", complexity |-> 20,
         progress |-> 0,
         quality_code |-> q[1] * Milli, quality_design |-> q[2] * Milli,
         quality_art |-> q[3] * Milli, quality_sound |-> q[4] * Milli,
         status |-> "in_dev", assigned_employees |-> <<>> ] >>,
    trend, config)

InitBalance ==
  /\ \E q \in QualityInputs, r \in ReputationInputs, trend \in TrendInputs,
        config \in ConfigInputs :
       sim = BalanceSimulation(q, r, trend, config)
  /\ last = [ op |-> "init", arg |-> 0, ready |-> {} ]
  /\ cal = StartCalendar(sim)

\* the balance functions are pure: every run calls one of them once on its inputs
NoCallYet == last.op = "init"

\* a call calculate_game_score(project, trend, studio, config)
CalculateGameScore ==
  /\ NoCallYet
  /\ \E jitter \in JitterDraws(sim.balance_config) :
       Done("calculate_game_score", calculate_game_score(sim, 1, jitter))
  /\ UNCHANGED <<sim, cal>>

\* a call generate_reviews(score)
GenerateReviews ==
  /\ NoCallYet
  /\ \E score \in ScoreInputs, review_count \in ReviewCounts, perm \in Shuffles :
       Done("generate_reviews",
            [ score |-> score, reviews |-> generate_reviews(score, review_count, perm) ])
  /\ UNCHANGED <<sim, cal>>

\* two calls calculate_sales(score, base_price, market_size, config) with the same
\* configuration and the same variance draw, the first score not above the second
CalculateSales ==
  /\ NoCallYet
  /\ \E low \in ScoreInputs, high \in ScoreInputs, variance \in VarianceDraws :
       /\ low <= high
       /\ Done("calculate_sales",
               [ low |-> low, high |-> high,
                 revenue_low |-> calculate_sales(low, sim.balance_config, variance),
                 revenue_high |-> calculate_sales(high, sim.balance_config, variance) ])
  /\ UNCHANGED <<sim, cal>>

NextBalance == CalculateGameScore \/ GenerateReviews \/ CalculateSales

SpecBalance == InitBalance /\ [][NextBalance]_vars

\* ------------------------------------------------------------ weeks of work
\* fatigue_per_week, rest_recovery_per_week and trend_genre_bonus of the
\* configurations of the weeks: none, the defaults, more than the scale leaves
WeekConfigs ==
  { [get_default_balance_config EXCEPT !.fatigue_per_week = fw,
                                       !.rest_recovery_per_week = rr,
                                       !.trend_genre_bonus = bonus] :
      fw \in {0, 10, 35}, rr \in {0, 5, 150}, bonus \in {0, 200} }

\* fatigue of the working and of the idle employee when the weeks begin
WorkerFatigues == {0, 85}
IdleFatigues == {3, 100}
\* progress (thousandths) and complexity of the project when the weeks begin
StartProgress == {0, 99500, FullProgress}
Complexities == {0, 20}

\* A studio with the programmer of tests/test_simulation.py on a trending project
\* and a second employee, of salary 0, on no project
WeekSimulation(worker_fatigue, idle_fatigue, progress, complexity, config) ==
  NewSimulation(
    [ name |-> "Test Studio", cash |-> 200, reputation |-> 0,
      employees |-> <<1, 2>>, projects |-> <<1>>, finished_projects |-> <<>> ],
    << [ name |-> "Anna", role |-> "programmer", skill_code |-> 8, skill_design |-> 2,
         skill_art |-> 1, skill_sound |-> 1, salary |-> 50, fatigue |-> worker_fatigue ],
       [ name |-> "Boris", role |-> "designer", skill_code |-> 3, skill_design |-> 3,
         skill_art |-> 3, skill_sound |-> 3, salary |-> 0, fatigue |-> idle_fatigue ] >>,
    << [ title |-> "Arcade", genre |-> "Arcade", platform |-> "PC",
         complexity |-> complexity, progress |-> progress,
         quality_code |-> 0, quality_design |-> 0, quality_art |-> 0, quality_sound |-> 0,
         status |-> "in_dev", assigned_employees |-> <<1>> ] >>,
    TestTrend, config)

InitWeeks ==
  /\ \E worker_fatigue \in WorkerFatigues, idle_fatigue \in IdleFatigues,
        progress \in StartProgress, complexity \in Complexities, config \in WeekConfigs :
       sim = WeekSimulation(worker_fatigue, idle_fatigue, progress, complexity, config)
  /\ last = [ op |-> "init", arg |-> 0, ready |-> {} ]
  /\ cal = StartCalendar(sim)

WeekStep == Tick(MaxWeeks)

\* GameCLI._print_state_summary / show_report: a call of get_state_summary
GetStateSummary ==
  /\ Done("get_state_summary", get_state_summary(sim))
  /\ UNCHANGED <<sim, cal>>

NextWeeks == WeekStep \/ GetStateSummary

SpecWeeks == InitWeeks /\ [][NextWeeks]_vars

\* ------------------------------------------------------------ the save file
\* assigned_employees lists of a save file edited outside the program: indices
\* below 0, inside and beyond a roster of two, repeated and out of order
ForeignIndices ==
  { <<>>, <<0>>, <<2, 1, -1, 0>>, <<1, 5, 1>>, <<-1, 2>> }

\* The save file as the load command finds it: the list of the documents at the
\* path, empty when no file exists; a file holds what save_game wrote for the
\* current simulation, as written or with the assigned_employees of its active
\* projects edited
StorageFiles(s) ==
  { <<>>, <<to_dict(s)>> } \cup
  { << [to_dict(s) EXCEPT !.studio.projects =
          [ k \in DOMAIN @ |-> [@[k] EXCEPT !.assigned_employees = indices] ]] >> :
      indices \in ForeignIndices }

\* load_game answering with a default simulation when the file is missing
load_game_default(file) ==
  IF Len(file) = 0
  THEN [ raised |-> "none",
         returned |-> <<EmptySimulation(get_default_balance_config)>> ]
  ELSE [ raised |-> "none", returned |-> <<from_dict(file[1])>> ]

\* load_game: the exception it raises ("none" when it returns) and the list of
\* what it returns
load_game(file) ==
  IF Len(file) = 0
  THEN [ raised |-> "FileNotFoundError", returned |-> <<>> ]
  ELSE [ raised |-> "none", returned |-> <<from_dict(file[1])>> ]

\* GameCLI._load_from_file / GamePygameUI._load_game: the simulation the
\* interface holds afterwards
_load_from_file(s, file) ==
  LET result == load_game(file)
  IN IF result.raised = "FileNotFoundError" THEN s ELSE result.returned[1]

\* Studios of the load runs: the test studio, the studio of two employees, the
\* empty one
InitStorage ==
  /\ sim \in { TestSimulation(QuietConfig, 0),
               WeekSimulation(0, 3, 0, 20, get_default_balance_config),
               EmptySimulation(get_default_balance_config) }
  /\ last = [ op |-> "init", arg |-> 0, ready |-> {} ]
  /\ cal = StartCalendar(sim)

\* the load command, whatever the save path holds
LoadFromFile ==
  /\ \E file \in StorageFiles(sim) :
       /\ sim' = _load_from_file(sim, file)
       /\ Done("load_from_file", file)
  /\ Command

NextStorage ==
  \/ RunStep
  \/ FireEmployee
  \/ LoadFromFile

SpecStorage == InitStorage /\ [][NextStorage]_vars

\* ------------------------------------------------- twins and idle projects
\* the default configuration without score jitter
StaffConfig == [get_default_balance_config EXCEPT !.random_score_deviation = 0]

\* The studio after the commands hire, hire, create project, assign: two
\* employees hired with the same entries, the first on the project "Arcade"
TwinSimulation ==
  LET anna == CHOOSE h \in HireInputs : h.name = "Anna"
      arcade == CHOOSE c \in CreateInputs : c.title = "Arcade"
      hired == _hire_employee(_hire_employee(EmptySimulation(StaffConfig), anna), anna)
  IN _assign_employees_to_project(_create_project(hired, arcade), 1, <<1>>)

\* progress (thousandths) the two idle projects are built with
IdleProgress == {0, FullProgress}
TrendingProgress == {0, 99800}

\* A studio of little cash whose three employees (one of an unknown role and one
\* designer, both of salary 0, and the programmer of tests/test_simulation.py) are
\* on no project, with a project of a genre that is not trending and one of the
\* trending genre
StaffSimulation(idle_progress, trending_progress) ==
  NewSimulation(
    [ name |-> "Test Studio", cash |-> 10, reputation |-> 0,
      employees |-> <<1, 2, 3>>, projects |-> <<1, 2>>, finished_projects |-> <<>> ],
    << [ name |-> "Boris", role |-> "tester", skill_code |-> 3, skill_design |-> 3,
         skill_art |-> 3, skill_sound |-> 3, salary |-> 0, fatigue |-> 0 ],
       [ name |-> "Dana", role |-> "designer", skill_code |-> 3, skill_design |-> 3,
         skill_art |-> 3, skill_sound |-> 3, salary |-> 0, fatigue |-> 0 ],
       [ name |-> "Anna", role |-> "programmer", skill_code |-> 8, skill_design |-> 2,
         skill_art |-> 1, skill_sound |-> 1, salary |-> 50, fatigue |-> 0 ] >>,
    << [ title |-> "Quest", genre |-> "RPG", platform |-> "Console", complexity |-> 20,
         progress |-> idle_progress,
         quality_code |-> 0, quality_design |-> 0, quality_art |-> 0, quality_sound |-> 0,
         status |-> "in_dev", assigned_employees |-> <<>> ],
       [ title |-> "Arcade", genre |-> "Arcade", platform |-> "PC", complexity |-> 1,
         progress |-> trending_progress,
         quality_code |-> 0, quality_design |-> 0, quality_art |-> 0, quality_sound |-> 0,
         status |-> "in_dev", assigned_employees |-> <<>> ] >>,
    TestTrend, StaffConfig)

InitStaff ==
  /\ sim \in { TwinSimulation } \cup
             { StaffSimulation(idle_progress, trending_progress) :
                 idle_progress \in IdleProgress, trending_progress \in TrendingProgress }
  /\ last = [ op |-> "init", arg |-> 0, ready |-> {} ]
  /\ cal = StartCalendar(sim)

\* weeks and firings
NextStaff ==
  \/ RunStep
  \/ FireEmployee

SpecStaff == InitStaff /\ [][NextStaff]_vars

\* ------------------------------------------- direct calls of the model methods
\* fatigue of the first employee, complexity and status of the project when the
\* calls begin: fatigue below, at and above one half of the scale; complexity
\* negative, 0 and the default of the create command; the statuses other than
\* in_dev
ModelFatigues == {0, 50, 95}
ModelComplexities == {-3, 0, 20}
ModelStatuses == {"released", "cancelled"}
\* fatigue_increase arguments: the default and one that reaches the cap
FatigueIncreases == {10, 60}

\* The studio of tests/test_simulation.py with a designer as second employee of
\* the project; a project that is not in_dev is held in finished_projects
ModelSimulation(fatigue, complexity, status) ==
  NewSimulation(
    [ name |-> "Test Studio", cash |-> 200, reputation |-> 0,
      employees |-> <<1, 2>>,
      projects |-> IF status = "in_dev" THEN <<1>> ELSE <<>>,
      finished_projects |-> IF status = "in_dev" THEN <<>> ELSE <<1>> ],
    << [ name |-> "Anna", role |-> "programmer", skill_code |-> 8, skill_design |-> 2,
         skill_art |-> 1, skill_sound |-> 1, salary |-> 50, fatigue |-> fatigue ],
       [ name |-> "Boris", role |-> "designer", skill_code |-> 3, skill_design |-> 3,
         skill_art |-> 3, skill_sound |-> 3, salary |-> 0, fatigue |-> 0 ] >>,
    << [ title |-> "Quest", genre |-> "RPG", platform |-> "Console",
         complexity |-> complexity, progress |-> 0,
         quality_code |-> 0, quality_design |-> 0, quality_art |-> 0, quality_sound |-> 0,
         status |-> status, assigned_employees |-> <<1, 2>> ] >>,
    TestTrend, QuietConfig)

InitModels ==
  /\ sim \in { ModelSimulation(fatigue, complexity, "in_dev") :
                 fatigue \in ModelFatigues, complexity \in ModelComplexities } \cup
             { ModelSimulation(0, 20, status) : status \in ModelStatuses }
  /\ last = [ op |-> "init", arg |-> 0, ready |-> {} ]
  /\ cal = StartCalendar(sim)

\* a call of Employee.work_on_task(fatigue_increase) on an employee of the roster;
\* the argument records the employee, the increase and the dictionary returned
WorkOnTask ==
  /\ \E e \in Range(sim.studio.employees), fatigue_increase \in FatigueIncreases :
       /\ sim' = [sim EXCEPT !.employee_objs[e] = work_on_task(@, fatigue_increase)]
       /\ Done("work_on_task",
               [ employee |-> e, fatigue_increase |-> fatigue_increase,
                 contributions |-> Contributions(sim.employee_objs[e]) ])
  /\ Command

\* a call of GameProject.apply_employee_work(employee, trend, fatigue_increase)
ApplyEmployeeWork ==
  /\ \E p \in StudioProjects(sim), e \in Range(sim.studio.employees),
        fatigue_increase \in FatigueIncreases :
       /\ sim' = apply_employee_work(sim, p, e, fatigue_increase)
       /\ Done("apply_employee_work",
               [ project |-> p, employee |-> e, fatigue_increase |-> fatigue_increase ])
  /\ Command

\* a call of GameProject.advance_week(trend, fatigue_increase)
AdvanceWeek ==
  /\ \E p \in StudioProjects(sim), fatigue_increase \in FatigueIncreases :
       /\ sim' = advance_week(sim, p, fatigue_increase)
       /\ Done("advance_week", [ project |-> p, fatigue_increase |-> fatigue_increase ])
  /\ Command

\* run_step calls, made before the direct calls
ModelWeek ==
  /\ cal.commands = 0
  /\ Tick(MaxTicks)

NextModels ==
  \/ ModelWeek
  \/ WorkOnTask
  \/ ApplyEmployeeWork
  \/ AdvanceWeek

SpecModels == InitModels /\ [][NextModels]_vars

\* ------------------------------------------------ after the first release
\* The studio of the command line seven weeks in, no event having struck: two
\* employees were hired with the same entries, the first released the trending
\* project "Arcade" in four weeks (fatigue 40) and has rested two weeks since,
\* the second was put on the project "Quest" created after the release and has
\* worked on it for those two weeks
ReleasedSimulation ==
  [ NewSimulation(
      [ name |-> "Indie Stars", cash |-> 68200, reputation |-> 6,
        employees |-> <<1, 2>>, projects |-> <<2>>, finished_projects |-> <<1>> ],
      << [ name |-> "Anna", role |-> "programmer", skill_code |-> 3, skill_design |-> 3,
           skill_art |-> 3, skill_sound |-> 3, salary |-> 0, fatigue |-> 30 ],
         [ name |-> "Anna", role |-> "programmer", skill_code |-> 3, skill_design |-> 3,
           skill_art |-> 3, skill_sound |-> 3, salary |-> 0, fatigue |-> 20 ] >>,
      << [ title |-> "Arcade", genre |-> "Arcade", platform |-> "PC", complexity |-> 1,
           progress |-> FullProgress,
           quality_code |-> 1020, quality_design |-> 1020, quality_art |-> 1020,
           quality_sound |-> 1020,
           status |-> "released", assigned_employees |-> <<1>> ],
         [ title |-> "Quest", genre |-> "RPG", platform |-> "Console", complexity |-> 20,
           progress |-> 2850,
           quality_code |-> 570, quality_design |-> 570, quality_art |-> 570,
           quality_sound |-> 570,
           status |-> "in_dev", assigned_employees |-> <<2>> ] >>,
      TestTrend, StaffConfig)
    EXCEPT !.current_week = 7 ]

InitReleased ==
  /\ sim = ReleasedSimulation
  /\ last = [ op |-> "init", arg |-> 0, ready |-> {} ]
  /\ cal = StartCalendar(sim)

\* weeks and firings after the release
SpecReleased == InitReleased /\ [][NextStaff]_vars

\* ------------------------------------------------------- week after week
\* run_step is repeated up to this many times, enough for the slowest of the
\* projects below that gains progress at all
MaxLiveTicks == 7

\* the four skills of the second employee, and the fatigue the first begins with
LiveSkills == {-5, 0, 3}
LiveFatigues == {0, 100}

\* The studio of the command line with the project "Arcade" of complexity 1 and
\* two programmers on it: one hired with the skills of the hire dialog, the other
\* with the same number entered for each skill (the prompts ask for 0-10 and
\* _read_int takes any integer)
LiveSimulation(skill, fatigue) ==
  NewSimulation(
    [ name |-> "Indie Stars", cash |-> 1000, reputation |-> 5,
      employees |-> <<1, 2>>, projects |-> <<1>>, finished_projects |-> <<>> ],
    << [ name |-> "Anna", role |-> "programmer", skill_code |-> 3, skill_design |-> 3,
         skill_art |-> 3, skill_sound |-> 3, salary |-> 0, fatigue |-> fatigue ],
       [ name |-> "Boris", role |-> "programmer", skill_code |-> skill,
         skill_design |-> skill, skill_art |-> skill, skill_sound |-> skill,
         salary |-> 20, fatigue |-> 0 ] >>,
    << [ title |-> "Arcade", genre |-> "Arcade", platform |-> "PC", complexity |-> 1,
         progress |-> 0,
         quality_code |-> 0, quality_design |-> 0, quality_art |-> 0, quality_sound |-> 0,
         status |-> "in_dev", assigned_employees |-> <<1, 2>> ] >>,
    TestTrend, StaffConfig)

InitLive ==
  /\ sim \in { LiveSimulation(skill, fatigue) : skill \in LiveSkills, fatigue \in LiveFatigues }
  /\ last = [ op |-> "init", arg |-> 0, ready |-> {} ]
  /\ cal = StartCalendar(sim)

\* menu choice 1 again and again
LiveWeek == Tick(MaxLiveTicks)

\* what a week of LiveWeek does to the record of the session: one more step, and
\* the year counted if the week was the last of its year
WeekPasses ==
  /\ cal.steps < MaxLiveTicks
  /\ cal' \in { [cal EXCEPT !.steps = @ + 1, !.year_incs = y, !.inc_weeks = w] :
                 y \in {cal.year_incs, cal.year_incs + 1},
                 w \in {cal.inc_weeks, cal.inc_weeks \cup {sim.current_week}} }

\* the user keeps choosing the next week and no other command: a week that can
\* pass does pass
SpecLive == InitLive /\ [][LiveWeek]_vars /\ WF_cal(WeekPasses)

\* ======================================================================
\* Properties
\* ======================================================================

\* how often x occurs in the list xs
Occurrences(xs, x) == Cardinality({ k \in 1..Len(xs) : xs[k] = x })

\* C1: every project that is in studio.projects, in_dev and at progress >= 100
\* when run_step is called is, when that run_step ends, in finished_projects with
\* status released and no longer in studio.projects; and no run_step puts a
\* project that is not in studio.projects (back) into it.
C1_ReleasedByRunStep ==
  [][ last'.op = "run_step" =>
        /\ \A p \in ReadyProjects(sim) :
             /\ p \in Range(sim'.studio.finished_projects)
             /\ sim'.project_objs[p].status = "released"
             /\ p \notin Range(sim'.studio.projects)
        /\ \A p \in DOMAIN sim.project_objs :
             p \notin Range(sim.studio.projects) => p \notin Range(sim'.studio.projects)
    ]_vars

\* C1 witness: a run_step that was called with a ready project has ended, and the
\* project is archived as released.
C1_Witness ==
  /\ last.op = "run_step"
  /\ last.ready # {}
  /\ \A p \in last.ready :
       /\ p \in Range(sim.studio.finished_projects)
       /\ p \notin Range(sim.studio.projects)
       /\ sim.project_objs[p].status = "released"

\* C2: release_game called on a project that is already released leaves cash,
\* reputation and finished_projects unchanged, and no project ever has more than
\* one entry in finished_projects (the release effects are applied at most once).
C2_ReleaseIdempotent ==
  [][ /\ \A p \in DOMAIN sim'.project_objs :
           Occurrences(sim'.studio.finished_projects, p) <= 1
      /\ (last'.op = "release_game" /\ sim.project_objs[last'.arg].status = "released") =>
           /\ sim'.studio.cash = sim.studio.cash
           /\ sim'.studio.reputation = sim.studio.reputation
           /\ sim'.studio.finished_projects = sim.studio.finished_projects
    ]_vars

\* C3: every project object of the studio occurs exactly once in studio.projects
\* followed by studio.finished_projects.
C3_ExactlyOneList ==
  \A p \in DOMAIN sim.project_objs :
    Occurrences(sim.studio.projects \o sim.studio.finished_projects, p) = 1

\* position of the employee object e in the roster, 0 when it is not in it
RosterPosition(s, e) ==
  IF e \in Range(s.studio.employees)
  THEN CHOOSE k \in 1..Len(s.studio.employees) : s.studio.employees[k] = e
  ELSE 0

\* a project in data terms: its fields, its employees as roster positions
ProjectView(s, p) ==
  LET P == s.project_objs[p]
  IN [P EXCEPT !.assigned_employees =
                 [ k \in 1..Len(P.assigned_employees) |->
                     RosterPosition(s, P.assigned_employees[k]) ]]

\* a simulation in data terms, whatever the identities of its objects
DataView(s) ==
  [ current_week |-> s.current_week,
    current_year |-> s.current_year,
    balance_config |-> s.balance_config,
    market_trend |-> s.market_trend,
    name |-> s.studio.name,
    cash |-> s.studio.cash,
    reputation |-> s.studio.reputation,
    employees |-> [ k \in 1..Len(s.studio.employees) |-> s.employee_objs[s.studio.employees[k]] ],
    projects |-> [ k \in 1..Len(s.studio.projects) |-> ProjectView(s, s.studio.projects[k]) ],
    finished_projects |->
      [ k \in 1..Len(s.studio.finished_projects) |->
          ProjectView(s, s.studio.finished_projects[k]) ] ]

\* C4: from_dict(to_dict(sim)) equals sim in data terms: calendar, configuration,
\* trend, studio scalars, roster, projects and finished projects, and for every
\* project the same sequence of assigned employees by roster position.
C4_RoundTrip == DataView(from_dict(to_dict(sim))) = DataView(sim)

\* C5: after the fire command the fired employee is neither in studio.employees
\* nor in the assigned list of any project of the studio, active or finished.
C5_FireRemovesEverywhere ==
  [][ last'.op = "fire" =>
        /\ last'.arg \notin Range(sim'.studio.employees)
        /\ \A p \in StudioProjects(sim') :
             last'.arg \notin Range(sim'.project_objs[p].assigned_employees)
    ]_vars

\* C6: every employee a project of studio.projects or studio.finished_projects
\* refers to is a member of studio.employees.
C6_AssignedInRoster ==
  \A p \in StudioProjects(sim) :
    Range(sim.project_objs[p].assigned_employees) \subseteq Range(sim.studio.employees)

\* C7: 52 consecutive run_step calls from week w of year y end in week w of year
\* y + 1, the year having changed exactly once on the way, at a step that left
\* week 52.
C7_YearOfTicks ==
  /\ cal.steps = WeeksPerYear =>
       /\ sim.current_week = cal.start_week
       /\ sim.current_year = cal.start_year + 1
       /\ cal.year_incs = 1
  /\ cal.steps <= WeeksPerYear => cal.year_incs <= 1
  /\ cal.inc_weeks \subseteq {WeeksPerYear}

\* C7 witness: a year of ticks that started in the middle of a year has ended.
C7_Witness ==
  /\ cal.steps = WeeksPerYear
  /\ cal.start_week = 30
  /\ sim.current_week = 30
  /\ sim.current_year = cal.start_year + 1

\* C8: current_week is in [1, 52] and current_year is at least 1.
C8_CalendarInRange ==
  /\ sim.current_week \in 1..WeeksPerYear
  /\ sim.current_year >= 1

\* the configuration C9 is about: no event chance, no income, no jitter
IsQuiet(config) ==
  /\ config.event_chance_per_week = 0
  /\ config.base_project_income_multiplier = 0
  /\ config.random_score_deviation = 0

\* C9: under a configuration with event chance 0, income multiplier 0 and score
\* deviation 0, one run_step lowers cash by exactly the salary total whatever is
\* drawn, archives every ready project as released and advances the week by one.
C9_QuietTick ==
  [][ (last'.op = "run_step" /\ IsQuiet(sim.balance_config)) =>
        /\ sim'.studio.cash = sim.studio.cash - TotalSalaryFrom(sim, 1)
        /\ \A p \in ReadyProjects(sim) :
             /\ p \in Range(sim'.studio.finished_projects)
             /\ sim'.project_objs[p].status = "released"
        /\ sim'.current_week = IF sim.current_week = WeeksPerYear THEN 1
                               ELSE sim.current_week + 1
    ]_vars

\* C10: a released project stays released, and a project becomes released, by
\* run_step or release_game, only with progress >= 100.
C10_ReleaseOneWayAtFullProgress ==
  [][ last'.op \in {"run_step", "release_game"} =>
        \A p \in DOMAIN sim.project_objs :
          /\ sim.project_objs[p].status = "released" =>
               sim'.project_objs[p].status = "released"
          /\ (sim.project_objs[p].status # "released"
                /\ sim'.project_objs[p].status = "released") =>
               sim'.project_objs[p].progress >= FullProgress
    ]_vars

\* the week after one _advance_calendar
NextWeek(s) == IF s.current_week >= WeeksPerYear THEN 1 ELSE s.current_week + 1

\* the projects and employees after the work and trend phases of a tick on s
AfterWork(s) == _apply_market_trends(_advance_projects(s))

\* C11: one run_step runs its phases once and in order: every project has after
\* the tick the quality and progress that one week of work and one trend bonus on
\* the state before the tick give (the event of the week does not touch that
\* week's work); a project is released in the tick exactly if it is in_dev at
\* progress >= 100 after the work and trend phases; every employee has the fatigue
\* the week's work leaves, one of them possibly 20 more (sickness comes after the
\* work); and the week advances by one.
C11_PhasesInOrder ==
  [][ last'.op = "run_step" =>
        LET w == AfterWork(sim)
        IN /\ \A p \in DOMAIN sim.project_objs :
                LET P == sim.project_objs[p]
                    W == w.project_objs[p]
                    Q == sim'.project_objs[p]
                IN /\ Q.progress = W.progress
                   /\ Q.quality_code = W.quality_code
                   /\ Q.quality_design = W.quality_design
                   /\ Q.quality_art = W.quality_art
                   /\ Q.quality_sound = W.quality_sound
                   /\ (p \in Range(sim.studio.projects) /\ P.status = "in_dev") =>
                        (Q.status = "released" <=> W.progress >= FullProgress)
           /\ \A e \in DOMAIN sim.employee_objs :
                sim'.employee_objs[e].fatigue \in
                  { w.employee_objs[e].fatigue,
                    Min(100, w.employee_objs[e].fatigue + SicknessFatigue) }
           /\ sim'.current_week = NextWeek(sim)
    ]_vars

\* C11 witness: the second of two ticks on the test studio started at progress 0:
\* the programmer worked both weeks at full efficiency (quality_code 1.52), fell
\* sick in the second week after the work (fatigue 10 + 10 + 20), and the project,
\* not ready when the tick began, was released in it.
C11_Witness ==
  /\ last.op = "run_step"
  /\ cal.steps = 2 /\ cal.commands = 0
  /\ last.ready = {}
  /\ Len(sim.project_objs) = 1 /\ Len(sim.employee_objs) = 1
  /\ sim.project_objs[1].status = "released"
  /\ sim.project_objs[1].quality_code = 1520
  /\ sim.employee_objs[1].fatigue = 40

\* C12: a call release_game(project) sets the project's status to released, adds
\* to cash exactly the income it returns and to reputation max(1, floor(score/20))
\* of the score it returns, an amount in 1..5; and a project that was in
\* studio.projects is afterwards not in it and is the new last entry of
\* finished_projects.
C12_ReleaseEffects ==
  [][ last'.op = "release_game" =>
        LET p == last'.arg
        IN /\ sim'.project_objs[p].status = "released"
           /\ \E jitter \in JitterDraws(sim.balance_config), variance \in VarianceDraws :
                LET r == ReleaseResult(sim, p, jitter, variance)
                    gain == Max(1, r.score \div (20 * Milli))
                IN /\ sim'.studio.cash = sim.studio.cash + r.income
                   /\ sim'.studio.reputation = sim.studio.reputation + gain
                   /\ gain \in 1..5
           /\ p \in Range(sim.studio.projects) =>
                /\ p \notin Range(sim'.studio.projects)
                /\ Len(sim'.studio.projects) = Len(sim.studio.projects) - 1
                /\ sim'.studio.finished_projects = Append(sim.studio.finished_projects, p)
    ]_vars

\* C12 witness: in the empty studio (cash 1000, reputation 5, default
\* configuration) a project was created and then released by a direct call: it is
\* the only finished project, income was added and reputation rose by one.
C12_Witness ==
  /\ last.op = "release_game"
  /\ cal.steps = 0
  /\ sim.studio.projects = <<>>
  /\ sim.studio.finished_projects = <<last.arg>>
  /\ sim.project_objs[last.arg].status = "released"
  /\ sim.studio.cash > 1000
  /\ sim.studio.reputation = 6

\* C13: no run_step, release_game or finish_project lowers studio.reputation, and
\* a run_step that releases nothing leaves it as it is (events do not touch it).
C13_ReputationMonotone ==
  [][ /\ last'.op \in {"run_step", "release_game", "finish_project"} =>
           sim'.studio.reputation >= sim.studio.reputation
      /\ ( /\ last'.op = "run_step"
           /\ \A p \in DOMAIN sim.project_objs :
                sim'.project_objs[p].status = sim.project_objs[p].status ) =>
           sim'.studio.reputation = sim.studio.reputation
    ]_vars

\* C13 witness: the first tick of the empty studio brought the market crisis
\* (cash 1000 - 150) and the reputation is still 5.
C13_Witness ==
  /\ last.op = "run_step"
  /\ cal.steps = 1 /\ cal.commands = 0
  /\ sim.studio.employees = <<>>
  /\ sim.studio.cash = 850
  /\ sim.studio.reputation = 5

\* the state s after a sickness of the employee e
SickOutcome(s, e) ==
  LET salary == s.employee_objs[e].salary
  IN [s EXCEPT !.employee_objs[e].fatigue = IF @ + 20 > 100 THEN 100 ELSE @ + 20,
               !.studio.cash = @ - (IF salary = 0 THEN 10 ELSE salary)]

\* the states the event phase may leave from s: no event, a sickness of one
\* employee of the roster, the contract, the crisis
EventOutcomes(s) ==
  {s} \cup { SickOutcome(s, e) : e \in Range(s.studio.employees) }
      \cup { [s EXCEPT !.studio.cash = @ + 200], [s EXCEPT !.studio.cash = @ - 150] }

\* C17: every run_step is the salaries, the work and the trend bonus, then at most
\* one event with exactly one of the three effects (sickness: one roster
\* employee's fatigue + 20 capped at 100 and cash less that employee's salary, or
\* 10 at salary zero; contract: cash + 200; crisis: cash - 150) that changes
\* nothing else, then the releases and the calendar.
C17_OneEvent ==
  [][ last'.op = "run_step" =>
        LET b == AfterWork(_pay_salaries(sim))
            n == Len(b.studio.projects)
            ready == { k \in 1..n :
                         LET P == b.project_objs[b.studio.projects[k]]
                         IN P.status = "in_dev" /\ P.progress >= FullProgress }
        IN \E o \in EventOutcomes(b) :
             \E j \in [ ready -> JitterDraws(sim.balance_config) ],
                v \in [ ready -> VarianceDraws ] :
               sim' = _advance_calendar(
                        _check_releases(o,
                          [ k \in 1..n |-> IF k \in ready THEN j[k] ELSE 0 ],
                          [ k \in 1..n |-> IF k \in ready THEN v[k] ELSE 1000 ]))
    ]_vars

\* C17 witness: the first tick of the test studio (cash 200, salary 50) brought a
\* sickness of its one employee: cash 200 - 50 - 50 and fatigue 10 + 20.
C17_Witness ==
  /\ last.op = "run_step"
  /\ cal.steps = 1 /\ cal.commands = 0
  /\ sim.studio.name = "Test Studio"
  /\ sim.studio.cash = 100
  /\ sim.employee_objs[1].fatigue = 30

\* C14: calculate_game_score returns a score in [0, 100], whatever the quality
\* scalars, the reputation (negative ones included), the trends and the jitter.
C14_ScoreInRange ==
  last.op = "calculate_game_score" => (last.arg >= 0 /\ last.arg <= 100 * Milli)

\* C14 witness: scores at both ends of the range were returned: for a studio of
\* negative reputation with positive quality, and for quality above the scale.
C14_Witness ==
  /\ last.op = "calculate_game_score"
  /\ \/ /\ sim.studio.reputation = -100
        /\ sim.project_objs[1].quality_code = 60 * Milli
        /\ last.arg = 0
     \/ /\ sim.studio.reputation = 100
        /\ sim.project_objs[1].quality_code = 200 * Milli
        /\ last.arg = 100 * Milli

\* C15: generate_reviews(score) returns 3 to 7 lines, all of the pool of the
\* score's bucket (below 40 negative, from 40 below 70 neutral, from 70 positive),
\* no line more than twice.
C15_ReviewsFromBucket ==
  last.op = "generate_reviews" =>
    LET score == last.arg.score
        reviews == last.arg.reviews
        bucket == IF score < 40 * Milli THEN Range(negative_pool)
                  ELSE IF score < 70 * Milli THEN Range(neutral_pool)
                  ELSE Range(positive_pool)
    IN /\ Len(reviews) >= 3 /\ Len(reviews) <= 7
       /\ Range(reviews) \subseteq bucket
       /\ \A line \in Range(reviews) : Occurrences(reviews, line) <= 2

\* C15 witness: seven neutral lines for the score 40, one of them twice.
C15_Witness ==
  /\ last.op = "generate_reviews"
  /\ last.arg.score = 40 * Milli
  /\ Len(last.arg.reviews) = 7
  /\ Range(last.arg.reviews) \subseteq Range(neutral_pool)
  /\ \E line \in Range(last.arg.reviews) : Occurrences(last.arg.reviews, line) = 2

\* C16: calculate_sales returns a revenue >= 0 for every score, negative ones
\* included, and for the same configuration and variance draw the revenue of a
\* score is not above the revenue of a higher score.
C16_SalesMonotone ==
  last.op = "calculate_sales" =>
    /\ last.arg.revenue_low >= 0
    /\ last.arg.revenue_high >= 0
    /\ last.arg.revenue_low <= last.arg.revenue_high

\* C16 witness: a negative score sold the minimum, a higher score more.
C16_Witness ==
  /\ last.op = "calculate_sales"
  /\ last.arg.low = -50 * Milli
  /\ last.arg.high = 50 * Milli
  /\ last.arg.revenue_low > 0
  /\ last.arg.revenue_low < last.arg.revenue_high

\* C18: the fatigue of every employee is in [0, 100] in every state run_step
\* reaches from fatigues in [0, 100], for non-negative fatigue_per_week and
\* rest_recovery_per_week.
C18_FatigueInRange ==
  \A e \in DOMAIN sim.employee_objs :
    sim.employee_objs[e].fatigue >= 0 /\ sim.employee_objs[e].fatigue <= 100

\* C18 witness: two weeks of work at 35 fatigue a week on a project still in
\* development left the worker at the cap, and a rest of 150 left the idle
\* employee at fatigue 0.
C18_Witness ==
  /\ last.op = "run_step"
  /\ cal.steps = 2
  /\ sim.balance_config.fatigue_per_week = 35
  /\ sim.balance_config.rest_recovery_per_week = 150
  /\ sim.project_objs[1].status = "in_dev"
  /\ sim.employee_objs[1].fatigue = 100
  /\ sim.employee_objs[2].fatigue = 0

\* C19: over every run_step the progress of every project does not decrease and
\* stays in [0, 100].
C19_ProgressInRange ==
  [][ last'.op = "run_step" =>
        \A p \in DOMAIN sim.project_objs :
          /\ sim'.project_objs[p].progress >= sim.project_objs[p].progress
          /\ sim'.project_objs[p].progress >= 0
          /\ sim'.project_objs[p].progress <= 100 * Milli
    ]_vars

\* C19 witness: a project that was below 100 when the first tick began was worked
\* on, clamped to 100 and released in that tick.
C19_Witness ==
  /\ last.op = "run_step"
  /\ cal.steps = 1
  /\ last.ready = {}
  /\ sim.project_objs[1].status = "released"
  /\ sim.project_objs[1].quality_code > 0
  /\ sim.project_objs[1].progress = 100 * Milli

\* C20: get_state_summary leaves the simulation as it is and returns the current
\* week, year, cash and reputation, the titles of studio.projects and of
\* studio.finished_projects and the names of studio.employees, each in list order.
C20_SummaryReadOnly ==
  [][ last'.op = "get_state_summary" =>
        /\ sim' = sim
        /\ last'.arg.week = sim.current_week
        /\ last'.arg.year = sim.current_year
        /\ last'.arg.cash = sim.studio.cash
        /\ last'.arg.reputation = sim.studio.reputation
        /\ Len(last'.arg.active_projects) = Len(sim.studio.projects)
        /\ \A k \in 1..Len(sim.studio.projects) :
             last'.arg.active_projects[k] = sim.project_objs[sim.studio.projects[k]].title
        /\ Len(last'.arg.finished_projects) = Len(sim.studio.finished_projects)
        /\ \A k \in 1..Len(sim.studio.finished_projects) :
             last'.arg.finished_projects[k] =
               sim.project_objs[sim.studio.finished_projects[k]].title
        /\ Len(last'.arg.employees) = Len(sim.studio.employees)
        /\ \A k \in 1..Len(sim.studio.employees) :
             last'.arg.employees[k] = sim.employee_objs[sim.studio.employees[k]].name
    ]_vars

\* C20 witness: a summary taken after a week in which the project was released.
C20_Witness ==
  /\ last.op = "get_state_summary"
  /\ last.arg.week = 2
  /\ last.arg.active_projects = <<>>
  /\ last.arg.finished_projects = <<"Arcade">>
  /\ last.arg.employees = <<"Anna", "Boris">>
  /\ sim.current_week = 2
  /\ sim.studio.finished_projects = <<1>>

\* C21: load_game on a file name that does not exist raises FileNotFoundError and
\* returns no simulation, and the load command that meets this failure leaves the
\* simulation it holds unchanged.
C21_MissingFileKeepsSimulation ==
  [][ (last'.op = "load_from_file" /\ Len(last'.arg) = 0) =>
        /\ load_game(last'.arg).raised = "FileNotFoundError"
        /\ load_game(last'.arg).returned = <<>>
        /\ sim' = sim ]_vars

\* a load of a missing file by the studio of two employees after a week passed
C21_Witness ==
  /\ last.op = "load_from_file"
  /\ Len(last.arg) = 0
  /\ cal.steps >= 1
  /\ sim.current_week > 1
  /\ Len(sim.studio.employees) >= 2

\* the entries of indices that are positions of a roster of n employees
InRoster(indices, n) ==
  LET Valid(i) == 0 <= i /\ i < n
  IN SelectSeq(indices, Valid)

\* the assigned employees of restored project p are those of the saved indices
\* that lie in [0, n), in saved order, each the roster member at that position
ResolvedByPosition(s, p, indices, n) ==
  LET kept == InRoster(indices, n)
      restored == s.project_objs[p].assigned_employees
  IN /\ Len(restored) = Len(kept)
     /\ \A j \in 1..Len(kept) : restored[j] = s.studio.employees[kept[j] + 1]
     /\ Range(restored) \subseteq Range(s.studio.employees)

\* C22: from_dict resolves each saved employee index by position in the restored
\* roster; an index outside [0, number of employees) is dropped without an error,
\* the others are resolved in saved order, and every employee assigned to a
\* restored project is a member of the restored roster.
C22_IndicesResolved ==
  [][ (last'.op = "load_from_file" /\ Len(last'.arg) = 1) =>
        LET data == last'.arg[1].studio
            n == Len(data.employees)
        IN /\ Len(sim'.studio.employees) = n
           /\ Len(sim'.studio.projects) = Len(data.projects)
           /\ Len(sim'.studio.finished_projects) = Len(data.finished_projects)
           /\ \A k \in 1..Len(data.projects) :
                ResolvedByPosition(sim', sim'.studio.projects[k],
                                   data.projects[k].assigned_employees, n)
           /\ \A k \in 1..Len(data.finished_projects) :
                ResolvedByPosition(sim', sim'.studio.finished_projects[k],
                                   data.finished_projects[k].assigned_employees, n)
           /\ \A p \in StudioProjects(sim') :
                Range(sim'.project_objs[p].assigned_employees)
                  \subseteq Range(sim'.studio.employees) ]_vars

\* a file whose project lists the indices 2, 1, -1, 0 is loaded into a roster of
\* two: 2 and -1 are dropped, the second and the first employee remain, in order
C22_Witness ==
  /\ last.op = "load_from_file"
  /\ Len(last.arg) = 1
  /\ Len(last.arg[1].studio.projects) = 1
  /\ last.arg[1].studio.projects[1].assigned_employees = <<2, 1, -1, 0>>
  /\ Len(sim.studio.employees) = 2
  /\ sim.project_objs[sim.studio.projects[1]].assigned_employees
       = << sim.studio.employees[2], sim.studio.employees[1] >>

\* C23: run_step never creates or deletes a project: the projects found in
\* studio.projects or finished_projects are the same before and after every
\* run_step, and finished_projects never loses an entry.
C23_ProjectsConserved ==
  [][ last'.op = "run_step" =>
        /\ StudioProjects(sim') = StudioProjects(sim)
        /\ DOMAIN sim'.project_objs = DOMAIN sim.project_objs
        /\ Len(sim'.studio.finished_projects) >= Len(sim.studio.finished_projects)
        /\ SubSeq(sim'.studio.finished_projects, 1, Len(sim.studio.finished_projects))
             = sim.studio.finished_projects ]_vars

\* a run_step released one project of two: one is archived, the other still active
C23_Witness ==
  /\ last.op = "run_step"
  /\ last.ready # {}
  /\ last.ready \subseteq Range(sim.studio.finished_projects)
  /\ Len(sim.studio.projects) = 1
  /\ Len(sim.project_objs) = 2

\* C24: run_step never modifies balance_config, market_trend, the membership or
\* order of studio.employees, or any employee's name, role, skills or salary; of
\* an employee only the fatigue can change.
C24_RunStepFrame ==
  [][ last'.op = "run_step" =>
        /\ sim'.balance_config = sim.balance_config
        /\ sim'.market_trend = sim.market_trend
        /\ sim'.studio.employees = sim.studio.employees
        /\ DOMAIN sim'.employee_objs = DOMAIN sim.employee_objs
        /\ \A e \in DOMAIN sim.employee_objs :
             [sim'.employee_objs[e] EXCEPT !.fatigue = 0]
               = [sim.employee_objs[e] EXCEPT !.fatigue = 0] ]_vars

\* the first run_step of a roster of two rested employees leaves both tired:
\* one worked, the other was taken ill
C24_Witness ==
  /\ last.op = "run_step"
  /\ cal.steps = 1
  /\ Len(sim.studio.employees) = 2
  /\ \A k \in 1..2 : sim.employee_objs[sim.studio.employees[k]].fatigue > 0
  /\ \E k \in 1..2 : sim.employee_objs[sim.studio.employees[k]].fatigue = SicknessFatigue

\* C25: when a run_step ends, no project of studio.projects is in_dev with
\* progress >= 100: a project that reaches 100 by work or by the trend bonus in a
\* tick is released in that tick, and so are all projects ready in the same tick.
C25_NoReadyProjectLeft ==
  last.op = "run_step" =>
    \A p \in Range(sim.studio.projects) :
      ~(sim.project_objs[p].status = "in_dev" /\ sim.project_objs[p].progress >= FullProgress)

\* two projects worked on in both weeks reached 100 in the second run_step, which
\* released both
C25_Witness ==
  /\ last.op = "run_step"
  /\ last.ready = {}
  /\ cal.steps = 2
  /\ Len(sim.studio.projects) = 0
  /\ Len(sim.studio.finished_projects) = 2
  /\ \A p \in Range(sim.studio.finished_projects) :
       /\ sim.project_objs[p].status = "released"
       /\ sim.project_objs[p].quality_code > 100

\* C26: in every state reached through run_step, release_game and
\* GameStudio.finish_project, every project of finished_projects has status
\* released and no project of studio.projects has status released.
C26_StatusMatchesList ==
  /\ \A p \in Range(sim.studio.finished_projects) : sim.project_objs[p].status = "released"
  /\ \A p \in Range(sim.studio.projects) : sim.project_objs[p].status # "released"

\* the employee e is one of the employees assigned to the project p
AssignedTo(s, e, p) == e \in Range(s.project_objs[p].assigned_employees)

\* C27: firing an employee changes no other employee's assignments: every other
\* employee of the roster is assigned to a project afterwards exactly if assigned
\* to it before, also when all its fields equal those of the fired employee.
C27_FireKeepsOthersAssigned ==
  [][ last'.op = "fire" =>
        \A e \in Range(sim'.studio.employees) :
          \A p \in DOMAIN sim.project_objs :
            AssignedTo(sim', e, p) <=> AssignedTo(sim, e, p) ]_vars

\* the employee e is assigned to a project of studio.projects that is in_dev
OnActiveProject(s, e) ==
  \E p \in Range(s.studio.projects) :
    s.project_objs[p].status = "in_dev" /\ AssignedTo(s, e, p)

\* C28: in the advance phase of every run_step each roster employee who is
\* assigned to no active (in_dev) project has the fatigue reduced by exactly
\* min(fatigue, rest_recovery_per_week), and no employee assigned to an active
\* project is rested: each employee either works or rests.  (The event phase that
\* follows may add the fatigue of a sickness.)
C28_IdleEmployeesRest ==
  [][ last'.op = "run_step" =>
        LET a == _advance_projects(_pay_salaries(sim))
            recovery == sim.balance_config.rest_recovery_per_week
        IN \A e \in Range(sim.studio.employees) :
             LET before == sim.employee_objs[e].fatigue
                 after == a.employee_objs[e].fatigue
             IN /\ IF OnActiveProject(sim, e)
                   THEN after >= before
                   ELSE after = before - Min(before, recovery)
                /\ sim'.employee_objs[e].fatigue
                     \in { after, Min(100, after + SicknessFatigue) } ]_vars

\* what the salary phase pays the employee e: the stored salary, or at salary 0
\* the base salary of the role, that of a programmer for any other role
SalaryPaid(s, e) ==
  LET E == s.employee_objs[e]
      config == s.balance_config
  IN IF E.salary # 0 THEN E.salary
     ELSE IF E.role = "designer" THEN config.base_salary_designer
     ELSE IF E.role = "artist" THEN config.base_salary_artist
     ELSE IF E.role = "sound" THEN config.base_salary_sound
     ELSE IF E.role = "producer" THEN config.base_salary_producer
     ELSE config.base_salary_programmer

RECURSIVE SalarySum(_, _)
\* the sum of SalaryPaid over the list of employees
SalarySum(s, employees) ==
  IF employees = <<>> THEN 0
  ELSE SalaryPaid(s, Head(employees)) + SalarySum(s, Tail(employees))

\* what an event may add to the cash of s: nothing, the contract, the crisis, the
\* cost of a sickness of one employee of the roster
EventCash(s) ==
  { 0, ContractPayment, -CrisisPenalty } \cup
  { -(IF s.employee_objs[e].salary = 0 THEN SicknessDefaultCost
      ELSE s.employee_objs[e].salary) : e \in Range(s.studio.employees) }

\* C29: the salary phase subtracts from cash exactly the sum over the roster of
\* the stored salaries, with the base salary of the role for a salary of 0 and
\* that of a programmer for a role that is not one of the five; it is paid in
\* full also when cash becomes negative, and changes nothing else.  (A tick that
\* releases nothing changes cash by the salaries and at most one event.)
C29_SalariesPaid ==
  [][ last'.op = "run_step" =>
        LET total == SalarySum(sim, sim.studio.employees)
        IN /\ _pay_salaries(sim) = [sim EXCEPT !.studio.cash = @ - total]
           /\ sim'.studio.finished_projects = sim.studio.finished_projects =>
                sim'.studio.cash - (sim.studio.cash - total) \in EventCash(sim) ]_vars

\* the first week of the studio of cash 10 without an event: the unknown role is
\* paid 25, the designer 22, the programmer the stored 50; cash is 10 - 97
C29_Witness ==
  /\ last.op = "run_step"
  /\ cal.steps = 1 /\ cal.commands = 0
  /\ Len(sim.studio.employees) = 3
  /\ sim.employee_objs[1].role = "tester" /\ sim.employee_objs[1].salary = 0
  /\ sim.employee_objs[2].role = "designer" /\ sim.employee_objs[2].salary = 0
  /\ sim.employee_objs[3].salary = 50
  /\ sim.studio.finished_projects = <<>>
  /\ sim.studio.cash = -87

\* the genre of the project P is one of the trending genres of s
Trending(s, P) ==
  \E k \in 1..Len(s.market_trend.trending_genres) : s.market_trend.trending_genres[k] = P.genre

\* the project p is in_dev, has no assigned employees and a genre that is not
\* trending
IdleProject(s, p) ==
  /\ s.project_objs[p].status = "in_dev"
  /\ s.project_objs[p].assigned_employees = <<>>
  /\ ~Trending(s, s.project_objs[p])

\* the step adds, after the work of the week, exactly trend_genre_bonus * 2,
\* clamped at 100, to the progress of each in_dev project of studio.projects whose
\* genre is trending, with or without assigned employees, and nothing to any
\* other project or to any quality
TrendBonusExact ==
  LET w == _advance_projects(_pay_salaries(sim))
  IN \A p \in DOMAIN sim.project_objs :
       LET W == w.project_objs[p]
           bonus == IF /\ p \in Range(sim.studio.projects)
                       /\ W.status = "in_dev"
                       /\ Trending(sim, W)
                    THEN sim.balance_config.trend_genre_bonus * 2 ELSE 0
       IN /\ sim'.project_objs[p].progress
               = (IF W.progress + bonus > FullProgress THEN FullProgress
                  ELSE W.progress + bonus)
          /\ [sim'.project_objs[p] EXCEPT !.progress = 0, !.status = "in_dev"]
               = [W EXCEPT !.progress = 0, !.status = "in_dev"]

\* the step leaves the idle projects of studio.projects whose progress is below
\* limit as they are, and in studio.projects
IdleProjectsKept(limit) ==
  \A p \in Range(sim.studio.projects) :
    (IdleProject(sim, p) /\ sim.project_objs[p].progress < limit) =>
      /\ sim'.project_objs[p] = sim.project_objs[p]
      /\ p \in Range(sim'.studio.projects)

\* C30 as stated: the trend phase adds exactly trend_genre_bonus * 2 (clamped at
\* 100) to the progress of each in_dev project of a trending genre, with or
\* without assigned employees, and nothing to any other; an in_dev project with no
\* assigned employees and a genre that is not trending keeps progress and quality
\* over any number of ticks and is never released by run_step.
C30_IdleProjectNeverReleased ==
  [][ last'.op = "run_step" =>
        (TrendBonusExact /\ IdleProjectsKept(FullProgress + 1)) ]_vars

\* C30, amended: the same, the second half for an idle project whose progress is
\* below 100; one that is at 100 already is released by the next run_step.
C30_IdleProjectBelowFull ==
  [][ last'.op = "run_step" =>
        (TrendBonusExact /\ IdleProjectsKept(FullProgress)) ]_vars

\* after two weeks without a command the idle project "Quest" is still active at
\* progress 0 with no quality, and the project "Arcade", of the trending genre and
\* without employees, has twice gained trend_genre_bonus * 2 and nothing else
C30_Witness ==
  /\ last.op = "run_step"
  /\ cal.steps = 2 /\ cal.commands = 0
  /\ sim.studio.projects = <<1, 2>>
  /\ IdleProject(sim, 1)
  /\ sim.project_objs[1].progress = 0
  /\ sim.project_objs[2].assigned_employees = <<>>
  /\ sim.project_objs[2].genre = "Arcade"
  /\ sim.project_objs[2].progress = 4 * sim.balance_config.trend_genre_bonus
  /\ sim.project_objs[2].quality_code = 0
  /\ sim.balance_config.trend_genre_bonus > 0

RECURSIVE WorkInOrder(_, _, _, _)
\* apply_employee_work of the project p for the employees of the list, first to
\* last
WorkInOrder(s, p, employees, fatigue_increase) ==
  IF employees = <<>> THEN s
  ELSE WorkInOrder(apply_employee_work(s, p, Head(employees), fatigue_increase),
                   p, Tail(employees), fatigue_increase)

\* C31: advance_week on a project whose status is not in_dev changes neither the
\* project nor the fatigue of any assigned employee; on an in_dev project it
\* applies the work of every assigned employee exactly once, in list order.
C31_AdvanceWeekFrame ==
  [][ last'.op = "advance_week" =>
        LET p == last'.arg.project
            fatigue_increase == last'.arg.fatigue_increase
            assigned == sim.project_objs[p].assigned_employees
        IN IF sim.project_objs[p].status # "in_dev"
           THEN sim' = sim
           ELSE /\ sim' = WorkInOrder(sim, p, assigned, fatigue_increase)
                /\ \A e \in Range(assigned) :
                     sim'.employee_objs[e].fatigue
                       = Min(100, sim.employee_objs[e].fatigue
                                    + fatigue_increase * Occurrences(assigned, e)) ]_vars

\* advance_week was called on the cancelled project: the studio is as it was built
C31_Witness ==
  /\ last.op = "advance_week"
  /\ cal.commands = 1 /\ cal.steps = 0
  /\ sim.project_objs[last.arg.project].status = "cancelled"
  /\ sim = ModelSimulation(0, 20, "cancelled")

\* C32: work_on_task computes the four contributions with the efficiency factor
\* of the fatigue the employee had before the call, the factor never below one
\* half (at fatigue >= 50 each contribution is exactly half the skill), and only
\* then sets fatigue to min(100, fatigue + fatigue_increase).
C32_ContributionsBeforeFatigue ==
  [][ last'.op = "work_on_task" =>
        LET e == last'.arg.employee
            c == last'.arg.contributions
            E == sim.employee_objs[e]
            percent == IF E.fatigue >= 50 THEN 50 ELSE 100 - E.fatigue
            raised == E.fatigue + last'.arg.fatigue_increase
        IN /\ c.code = E.skill_code * percent * 10
           /\ c.design = E.skill_design * percent * 10
           /\ c.art = E.skill_art * percent * 10
           /\ c.sound = E.skill_sound * percent * 10
           /\ E.fatigue >= 50 =>
                /\ 2 * c.code = E.skill_code * Milli
                /\ 2 * c.design = E.skill_design * Milli
                /\ 2 * c.art = E.skill_art * Milli
                /\ 2 * c.sound = E.skill_sound * Milli
           /\ sim' = [sim EXCEPT !.employee_objs[e].fatigue =
                                   IF raised > 100 THEN 100 ELSE raised] ]_vars

\* the programmer worked at fatigue 50 or more: the code contribution is half of
\* the skill 8, and the fatigue went to the cap
C32_Witness ==
  /\ last.op = "work_on_task"
  /\ cal.commands = 1 /\ cal.steps = 0
  /\ last.arg.employee = 1
  /\ last.arg.contributions.code = 4 * Milli
  /\ sim.employee_objs[1].fatigue = 100

\* s with every complexity below 1 replaced by 1
FlooredComplexity(s) ==
  [s EXCEPT !.project_objs =
     [ p \in DOMAIN @ |-> [@[p] EXCEPT !.complexity = IF @ < 1 THEN 1 ELSE @] ]]

\* the project P without its complexity and status
WorkDone(P) == [P EXCEPT !.complexity = 1, !.status = "in_dev"]

\* C33: apply_employee_work and run_step complete for every integer complexity of
\* a project: 0 and negative values are treated as complexity 1 in the progress
\* gain (no division by zero), and the progress gain is never negative.
C33_ComplexityFloored ==
  [][ /\ last'.op = "apply_employee_work" =>
           LET p == last'.arg.project
               floored == apply_employee_work(FlooredComplexity(sim), p, last'.arg.employee,
                                              last'.arg.fatigue_increase)
           IN /\ WorkDone(sim'.project_objs[p]) = WorkDone(floored.project_objs[p])
              /\ sim'.employee_objs = floored.employee_objs
              /\ sim'.project_objs[p].progress >= sim.project_objs[p].progress
      /\ last'.op = "run_step" =>
           LET floored == AfterWork(_pay_salaries(FlooredComplexity(sim)))
           IN \A p \in DOMAIN sim.project_objs :
                /\ WorkDone(sim'.project_objs[p]) = WorkDone(floored.project_objs[p])
                /\ sim'.project_objs[p].progress >= sim.project_objs[p].progress ]_vars

\* the designer's work on the project of complexity 0, then that of the rested
\* programmer on it: progress 3 * 10 + 8 * 10, clamped to 100
C33_Witness ==
  /\ last.op = "apply_employee_work"
  /\ cal.commands = 2 /\ cal.steps = 0
  /\ sim.project_objs[1].complexity = 0
  /\ sim.project_objs[1].progress = FullProgress
  /\ sim.project_objs[1].quality_code = 1100

\* C34: assigning an employee to a project that already has that employee
\* assigned is a no-op, so after any sequence of hire, assign and fire commands
\* no project's assigned list contains the same employee twice.
C34_NoDoubleAssignment ==
  [][ /\ \A p \in DOMAIN sim'.project_objs :
           \A e \in Range(sim'.project_objs[p].assigned_employees) :
             Occurrences(sim'.project_objs[p].assigned_employees, e) = 1
      /\ last'.op = "assign" =>
           \A e \in Range(sim.project_objs[last'.arg].assigned_employees) :
             Occurrences(sim'.project_objs[last'.arg].assigned_employees, e)
               = Occurrences(sim.project_objs[last'.arg].assigned_employees, e) ]_vars

\* the only command so far assigned the programmer of the test studio, who was on
\* the project already, to it again: the list still holds that one entry
C34_Witness ==
  /\ last.op = "assign"
  /\ cal.commands = 1 /\ cal.steps = 0
  /\ sim.studio.name = "Test Studio"
  /\ sim.studio.employees = <<1>>
  /\ sim.project_objs[last.arg].assigned_employees = <<1>>

RECURSIVE RevenueFrom(_, _, _, _, _, _)
\* the sum of the revenues of the projects at the positions ready of the list
\* copy, released first to last with the draws jitter and variance; each release
\* raises the reputation the next score is computed with
RevenueFrom(s, copy, k, ready, jitter, variance) ==
  IF k > Len(copy) THEN 0
  ELSE IF k \notin ready THEN RevenueFrom(s, copy, k + 1, ready, jitter, variance)
  ELSE LET score == calculate_game_score(s, copy[k], jitter[k])
           revenue == calculate_sales(score, s.balance_config, variance[k])
       IN revenue + RevenueFrom([s EXCEPT !.studio.reputation = @ + ReputationGain(score)],
                                copy, k + 1, ready, jitter, variance)

\* C35: for every run_step, cash afterwards is cash before, minus the salary
\* total, plus the effect of the event of the step (0 if none), plus the sum of
\* the revenues of the projects released in the step; nothing else changes cash.
C35_CashBalance ==
  [][ last'.op = "run_step" =>
        LET b == AfterWork(sim)
            copy == b.studio.projects
            ready == { k \in 1..Len(copy) :
                         /\ b.project_objs[copy[k]].status = "in_dev"
                         /\ b.project_objs[copy[k]].progress >= FullProgress }
        IN /\ \A k \in 1..Len(copy) :
                k \in ready <=> copy[k] \in Range(sim'.studio.finished_projects)
                                  \ Range(sim.studio.finished_projects)
           /\ \E event \in EventCash(sim) :
                \E jitter \in [ ready -> JitterDraws(sim.balance_config) ],
                   variance \in [ ready -> VarianceDraws ] :
                  sim'.studio.cash
                    = sim.studio.cash - SalarySum(sim, sim.studio.employees) + event
                      + RevenueFrom(b, copy, 1, ready, jitter, variance) ]_vars

\* the first week of the studio of cash 10: salaries of 97, a sickness of the
\* programmer (salary 50) and the release of both projects, whose revenues sum
\* to 135000
C35_Witness ==
  /\ last.op = "run_step"
  /\ cal.steps = 1 /\ cal.commands = 0
  /\ Len(sim.studio.finished_projects) = 2
  /\ Len(sim.studio.employees) = 3
  /\ sim.employee_objs[3].fatigue = SicknessFatigue
  /\ sim.studio.cash = 10 - 97 - 50 + 135000

\* the in_dev projects among the positions of studio.projects
ActivePositions(s) ==
  { j \in 1..Len(s.studio.projects) : s.project_objs[s.studio.projects[j]].status = "in_dev" }

\* the entries of the employee e in the assigned list of the project at position j
\* that precede the entry i
EntriesBefore(s, e, j, i) ==
  Cardinality({ h \in 1..(i - 1) :
                  s.project_objs[s.studio.projects[j]].assigned_employees[h] = e })

\* how often the employee e works in the tick before the entry i of the project at
\* position j: once for each entry of e in an in_dev project at an earlier
\* position, and for each earlier entry of that project
WorksBefore(s, e, j, i) ==
  LET Entries(h) ==
        EntriesBefore(s, e, h, Len(s.project_objs[s.studio.projects[h]].assigned_employees) + 1)
      RECURSIVE Earlier(_)
      Earlier(h) == IF h = 0 THEN 0
                    ELSE (IF h \in ActivePositions(s) THEN Entries(h) ELSE 0) + Earlier(h - 1)
  IN Earlier(j - 1) + EntriesBefore(s, e, j, i)

\* how often the employee e works in the tick
WorksInTick(s, e) == WorksBefore(s, e, Len(s.studio.projects) + 1, 1)

\* the code quality the entries 1..i of the project at position j add in the tick:
\* the code skill of each employee, in percent, at the efficiency of the fatigue
\* raised by the employee's earlier work of the tick
RECURSIVE CodeQualityAdded(_, _, _)
CodeQualityAdded(s, j, i) ==
  IF i = 0 THEN 0
  ELSE LET e == s.project_objs[s.studio.projects[j]].assigned_employees[i]
           fatigue == Min(100, s.employee_objs[e].fatigue
                                 + s.balance_config.fatigue_per_week * WorksBefore(s, e, j, i))
       IN s.employee_objs[e].skill_code * Max(50, 100 - fatigue) + CodeQualityAdded(s, j, i - 1)

\* C37: an employee assigned to k in_dev projects works k times in one tick: before
\* the event phase the fatigue is min(100, old fatigue + k * fatigue_per_week),
\* each later project of studio.projects receives contributions computed at the
\* fatigue the earlier ones raised, and the fatigue of an employee assigned to an
\* in_dev project never decreases in a tick.
C37_WorksOncePerProject ==
  [][ last'.op = "run_step" =>
        LET a == _advance_projects(sim)
        IN /\ \A e \in Range(sim.studio.employees) :
                WorksInTick(sim, e) >= 1 =>
                  /\ a.employee_objs[e].fatigue
                       = Min(100, sim.employee_objs[e].fatigue
                                    + WorksInTick(sim, e) * sim.balance_config.fatigue_per_week)
                  /\ sim'.employee_objs[e].fatigue
                       \in { a.employee_objs[e].fatigue,
                             Min(100, a.employee_objs[e].fatigue + SicknessFatigue) }
                  /\ sim'.employee_objs[e].fatigue >= sim.employee_objs[e].fatigue
           /\ \A j \in ActivePositions(sim) :
                LET p == sim.studio.projects[j]
                IN sim'.project_objs[p].quality_code
                     = sim.project_objs[p].quality_code
                       + CodeQualityAdded(sim, j, Len(sim.project_objs[p].assigned_employees)) ]_vars

\* the programmer of the test studio, rested, was put on a second project and
\* worked a week: fatigue 2 * 10, code quality 8 * 100 % for the first project and
\* 8 * 90 % for the second
C37_Witness ==
  /\ last.op = "run_step"
  /\ cal.steps = 1 /\ cal.commands = 2
  /\ sim.studio.name = "Test Studio"
  /\ Len(sim.project_objs) = 2
  /\ \A p \in 1..2 : sim.project_objs[p].assigned_employees = <<1>>
  /\ sim.employee_objs[1].fatigue = 20
  /\ sim.project_objs[1].quality_code = 800
  /\ sim.project_objs[2].quality_code = 720

\* the employee e is assigned to a project, and to released projects only
OnReleasedOnly(s, e) ==
  /\ \E p \in DOMAIN s.project_objs : AssignedTo(s, e, p)
  /\ \A p \in DOMAIN s.project_objs :
       AssignedTo(s, e, p) => s.project_objs[p].status = "released"

\* C38: after a project is released no later run_step changes its progress,
\* quality, status or assigned list, and from the next tick on the employees
\* assigned only to released projects are idle: they do no work and rest in every
\* tick.  In the tick of the release itself the employees of the project work and
\* do not rest.
C38_ReleasedProjectsRetired ==
  [][ last'.op = "run_step" =>
        LET a == _advance_projects(sim)
            recovery == sim.balance_config.rest_recovery_per_week
        IN /\ \A p \in DOMAIN sim.project_objs :
                sim.project_objs[p].status = "released"
                  => sim'.project_objs[p] = sim.project_objs[p]
           /\ \A e \in Range(sim.studio.employees) :
                LET before == sim.employee_objs[e].fatigue
                    after == a.employee_objs[e].fatigue
                IN /\ OnReleasedOnly(sim, e)
                        => after = before - Min(before, recovery)
                   /\ ( \E p \in Range(sim.studio.projects) :
                          /\ AssignedTo(sim, e, p)
                          /\ sim.project_objs[p].status = "in_dev"
                          /\ sim'.project_objs[p].status = "released" )
                        => after = Min(100, before + WorksInTick(sim, e)
                                                       * sim.balance_config.fatigue_per_week) ]_vars

\* the project p is in development in studio.projects and one of its employees has
\* a positive skill of the role (for the roles without one, a positive sum)
Workable(s, p) ==
  /\ p \in Range(s.studio.projects)
  /\ s.project_objs[p].status = "in_dev"
  /\ \E e \in Range(s.project_objs[p].assigned_employees) :
       LET E == s.employee_objs[e]
       IN Primary(E.role, [ code |-> 4 * E.skill_code, design |-> 4 * E.skill_design,
                            art |-> 4 * E.skill_art, sound |-> 4 * E.skill_sound ]) > 0

\* no employee of the project p has a negative skill
SkillsInRange(s, p) ==
  \A e \in Range(s.project_objs[p].assigned_employees) :
    LET E == s.employee_objs[e]
    IN E.skill_code >= 0 /\ E.skill_design >= 0 /\ E.skill_art >= 0 /\ E.skill_sound >= 0

\* the project p has progress 100 and is released
ReleasedAtFull(s, p) ==
  /\ p \in DOMAIN s.project_objs
  /\ s.project_objs[p].progress >= FullProgress
  /\ s.project_objs[p].status = "released"

====
